---- MODULE Spec2Model ----
(***************************************************************************)
(* Model of the copilot retrieval-and-answer pipeline of the Patient 360   *)
(* backend: routes/copilot.py (ask_copilot, stream_copilot),               *)
(* services/retrieval.py (retrieve_context), services/llm.py (answer       *)
(* generation, SSE streaming, response parsing, templates) and             *)
(* settings.py (has_azure_openai).                                         *)
(*                                                                         *)
(* Text is a sequence of symbols.  A symbol is either one whitespace       *)
(* character (" " or "\n") or an indivisible chunk of non-whitespace       *)
(* characters ("ANSWER:", "-", "NEXT", ...).  The Python string            *)
(* operations used by the code are defined on such sequences.              *)
(***************************************************************************)
EXTENDS Integers, Sequences, FiniteSets, TLC

\* ------------------------------------------------------------------------
\* Bounds of the model
\* ------------------------------------------------------------------------
MaxRows == 2

MaxFragments == 3

\* longest raw text given to the response parser
MaxTextLen == 4

\* longest source list given to the prompt builder and the templates
MaxSources == 4

\* concurrent requests using the connection pool
NumRequests == 2

\* connections opened in one run of the pool
MaxConnections == 3

\* Python None
NoneVal == "<None>"

\* ------------------------------------------------------------------------
\* Python str operations on symbol sequences
\* ------------------------------------------------------------------------
Whitespace == {" ", "\n"}

RECURSIVE Concat(_)
Concat(ss) == IF ss = <<>> THEN <<>> ELSE Head(ss) \o Concat(Tail(ss))

\* s.startswith(p)
StartsWith(s, p) == Len(p) <= Len(s) /\ SubSeq(s, 1, Len(p)) = p

\* s.find(sub) + 1 : the first position at which sub occurs in s, 0 if none
Find(s, sub) ==
    LET hits == {i \in 1..(Len(s) - Len(sub) + 1) : SubSeq(s, i, i + Len(sub) - 1) = sub}
    IN IF hits = {} THEN 0 ELSE CHOOSE i \in hits : \A j \in hits : i <= j

\* sub in s
Contains(s, sub) == Find(s, sub) # 0

\* s.split(sep) for a non-empty separator: always at least one part
RECURSIVE Split(_, _)
Split(s, sep) ==
    LET i == Find(s, sep)
    IN IF i = 0 THEN <<s>>
       ELSE <<SubSeq(s, 1, i - 1)>> \o Split(SubSeq(s, i + Len(sep), Len(s)), sep)

\* s.lstrip(chars)
RECURSIVE LStripChars(_, _)
LStripChars(s, chars) ==
    IF s # <<>> /\ Head(s) \in chars THEN LStripChars(Tail(s), chars) ELSE s

\* s.rstrip(chars)
RECURSIVE RStripChars(_, _)
RStripChars(s, chars) ==
    IF s # <<>> /\ s[Len(s)] \in chars THEN RStripChars(SubSeq(s, 1, Len(s) - 1), chars) ELSE s

\* only the left side is trimmed
StripLeftOnly(s) == LStripChars(s, Whitespace)

\* s.strip()
Strip(s) == RStripChars(LStripChars(s, Whitespace), Whitespace)

\* s.split() : the maximal runs of non-whitespace symbols, each run a word
RECURSIVE SplitWords(_)
SplitWords(s) ==
    LET t == LStripChars(s, Whitespace)
        ends == {i \in 1..Len(t) : t[i] \in Whitespace}
        e == IF ends = {} THEN Len(t) + 1 ELSE CHOOSE i \in ends : \A j \in ends : i <= j
    IN IF t = <<>> THEN <<>>
       ELSE <<SubSeq(t, 1, e - 1)>> \o SplitWords(SubSeq(t, e, Len(t)))

\* sep.join(parts)
RECURSIVE Join(_, _)
Join(parts, sep) ==
    IF parts = <<>> THEN <<>>
    ELSE IF Len(parts) = 1 THEN Head(parts)
    ELSE Head(parts) \o sep \o Join(Tail(parts), sep)

\* one symbol lower-cased / upper-cased
LowerSym(c) ==
    CASE c = "Recent" -> "recent"
      [] c = "Changed" -> "changed"
      [] c = "Dose" -> "dose"
      [] c = "Risk" -> "risk"
      [] c = "Lisinopril" -> "lisinopril"
      [] c = "Potassium" -> "potassium"
      [] c = "Creatinine" -> "creatinine"
      [] c = "K" -> "k"
      [] c = "Last" -> "last"
      [] c = "Days" -> "days"
      [] c = "Action" -> "action"
      [] OTHER -> c

UpperSym(c) ==
    CASE c = "note" -> "NOTE"
      [] c = "lab" -> "LAB"
      [] c = "med" -> "MED"
      [] c = "unknown" -> "UNKNOWN"
      [] OTHER -> c

\* s.lower()
Lower(s) == [i \in 1..Len(s) |-> LowerSym(s[i])]

\* ------------------------------------------------------------------------
\* Response parser (llm.py)
\* ------------------------------------------------------------------------
NEXT_ACTIONS_MARKER == <<"NEXT", " ", "ACTIONS:">>

ANSWER_MARKER == <<"ANSWER:">>

\* "-" and the bullet character U+2022, written "(bullet)" here
BulletChars == {"-", "(bullet)"}

DefaultNextActions ==
    << <<"Review", " ", "full", " ", "clinical", " ", "context">>,
       <<"Document", " ", "assessment", " ", "in", " ", "patient", " ", "record">>,
       <<"Follow", " ", "up", " ", "as", " ", "clinically", " ", "appropriate">> >>

\* the answer section: the text after the first ANSWER: marker (up to the next
\* one), else the whole section; trimmed
ExtractAnswer(part) ==
    IF Contains(part, ANSWER_MARKER)
    THEN Strip(Split(part, ANSWER_MARKER)[2])
    ELSE Strip(part)

\* the bullet is left on the action
RECURSIVE ExtractActionsKeepsBullet(_)
ExtractActionsKeepsBullet(lines) ==
    IF lines = <<>> THEN <<>>
    ELSE LET line == Strip(Head(lines))
             action == Strip(LStripChars(line, BulletChars))
         IN (IF (StartsWith(line, <<"-">>) \/ StartsWith(line, <<"(bullet)">>)) /\ action # <<>>
             THEN <<line>> ELSE <<>>) \o ExtractActionsKeepsBullet(Tail(lines))

\* the loop over the lines of the actions section
RECURSIVE ExtractActions(_)
ExtractActions(lines) ==
    IF lines = <<>> THEN <<>>
    ELSE LET line == Strip(Head(lines))
             action == Strip(LStripChars(line, BulletChars))
         IN (IF (StartsWith(line, <<"-">>) \/ StartsWith(line, <<"(bullet)">>)) /\ action # <<>>
             THEN <<action>> ELSE <<>>) \o ExtractActions(Tail(lines))

parse_llm_response(response_text) ==
    IF Contains(response_text, NEXT_ACTIONS_MARKER)
    THEN LET parts == Split(response_text, NEXT_ACTIONS_MARKER)
             answer_part == parts[1]
             actions_part == IF Len(parts) > 1 THEN parts[2] ELSE <<>>
         IN [answer |-> ExtractAnswer(answer_part),
             next_actions |-> ExtractActions(Split(Strip(actions_part), <<"\n">>))]
    ELSE [answer |-> ExtractAnswer(response_text),
          next_actions |-> DefaultNextActions]

\* the ANSWER: guard looks at the whole text, not at the answer section
parse_raises_unguarded(response_text) ==
    IF Contains(response_text, NEXT_ACTIONS_MARKER)
    THEN LET answer_part == Split(response_text, NEXT_ACTIONS_MARKER)[1]
         IN Contains(response_text, ANSWER_MARKER)
              /\ Len(Split(answer_part, ANSWER_MARKER)) < 2
    ELSE Contains(response_text, ANSWER_MARKER)
           /\ Len(Split(response_text, ANSWER_MARKER)) < 2

\* an index applied to the result of a split is out of range (IndexError):
\* parts[0], and [1] of the split by ANSWER: in either branch
parse_raises(response_text) ==
    IF Contains(response_text, NEXT_ACTIONS_MARKER)
    THEN LET parts == Split(response_text, NEXT_ACTIONS_MARKER)
         IN \/ Len(parts) < 1
            \/ /\ Contains(parts[1], ANSWER_MARKER)
               /\ Len(Split(parts[1], ANSWER_MARKER)) < 2
    ELSE Contains(response_text, ANSWER_MARKER)
           /\ Len(Split(response_text, ANSWER_MARKER)) < 2

\* the response format the prompt asks for: ANSWER: A, a blank line,
\* NEXT ACTIONS:, then one "- x" line per action
ResponseFormat(A, xs) ==
    ANSWER_MARKER \o <<" ">> \o A \o <<"\n", "\n">> \o NEXT_ACTIONS_MARKER \o <<"\n">>
        \o Join([i \in 1..Len(xs) |-> <<"-", " ">> \o xs[i]], <<"\n">>)

\* ------------------------------------------------------------------------
\* Template backend (llm.py)
\* ------------------------------------------------------------------------
\* a fixed phrase: its words separated by single spaces
Phrase(ws) == Join([i \in 1..Len(ws) |-> <<ws[i]>>], <<" ">>)

\* xs[:n]
Take(xs, n) == SubSeq(xs, 1, IF Len(xs) < n THEN Len(xs) ELSE n)

\* [s for s in sources if s.source_type == t]
RECURSIVE OfType(_, _)
OfType(sources, t) ==
    IF sources = <<>> THEN <<>>
    ELSE (IF Head(sources).source_type = t THEN <<Head(sources)>> ELSE <<>>)
         \o OfType(Tail(sources), t)

\* next((xs[i] for i in hits), None) as a sequence of at most one element
FirstAt(xs, hits) ==
    IF hits = {} THEN <<>>
    ELSE <<xs[CHOOSE i \in hits : \A j \in hits : i <= j]>>

SnippetLimit == 200

ChangesActions ==
    << Phrase(<<"Review", "medication", "changes", "with", "patient">>),
       Phrase(<<"Confirm", "lab", "trends", "are", "in", "expected", "direction">>),
       Phrase(<<"Schedule", "follow-up", "to", "assess", "treatment", "response">>) >>

MedicationActions ==
    << Phrase(<<"Monitor", "potassium", "and", "kidney", "function">>),
       Phrase(<<"Assess", "blood", "pressure", "response", "to", "dose", "change">>),
       Phrase(<<"Document", "rationale", "in", "medication", "history">>) >>

RiskActions ==
    << Phrase(<<"Prioritize", "kidney", "function", "monitoring">>),
       Phrase(<<"Ensure", "diabetes", "management", "is", "optimized">>),
       Phrase(<<"Review", "cardiovascular", "risk", "factors">>) >>

GenericActions ==
    << Phrase(<<"Review", "relevant", "clinical", "context">>),
       Phrase(<<"Document", "findings", "in", "patient", "record">>),
       Phrase(<<"Follow", "up", "as", "clinically", "indicated">>) >>

MedicationHeader == <<"**", "Medication", " ", "Changes", ":**">>

LabHeader == <<"**", "Lab", " ", "Results", ":**">>

NotesHeader == <<"**", "Clinical", " ", "Notes", ":**">>

LimitedInfoLine ==
    Phrase(<<"Limited", "information", "available", "in", "the", "retrieved", "context.">>)

ChangesLine(s) ==
    <<"-", " ">> \o s.label \o <<":", " ">> \o s.snippet
        \o <<" ", "[Source:", " ", s.source_type, "]">>

template_changes_response(patient_name, notes, labs, meds) ==
    LET head == Phrase(<<"Based", "on", "the", "available", "records", "for">>)
                  \o <<" ">> \o patient_name \o <<",", " ">>
                  \o Phrase(<<"here", "are", "the", "key", "changes:">>) \o <<"\n">>
        medPart == IF meds # <<>>
                   THEN <<MedicationHeader>>
                        \o [i \in 1..Len(Take(meds, 3)) |-> ChangesLine(meds[i])]
                   ELSE <<>>
        labPart == IF labs # <<>>
                   THEN << <<"\n">> \o LabHeader >>
                        \o [i \in 1..Len(Take(labs, 3)) |-> ChangesLine(labs[i])]
                   ELSE <<>>
        notePart == IF notes # <<>>
                    THEN << <<"\n">> \o NotesHeader,
                            <<"-", " ", ToString(Len(notes)), " ">>
                              \o Phrase(<<"relevant", "clinical", "notes", "found",
                                          "documenting", "recent", "care">>) >>
                    ELSE <<>>
        nonePart == IF meds = <<>> /\ labs = <<>> /\ notes = <<>>
                    THEN <<LimitedInfoLine>> ELSE <<>>
    IN Join(<<head>> \o medPart \o labPart \o notePart \o nonePart, <<"\n">>)

MentionsLisinopril(med) ==
    \/ Contains(Lower(med.label), <<"lisinopril">>)
    \/ Contains(Lower(med.snippet), <<"lisinopril">>)

IsPotassiumLab(l) ==
    Contains(Lower(l.label), <<"potassium">>) \/ Contains(Lower(l.label), <<"k">>)

IsCreatinineLab(l) ==
    Contains(Lower(l.label), <<"creatinine">>) \/ Contains(Lower(l.label), <<"egfr">>)

LabLine(l) == <<"-", " ">> \o l.label \o <<":", " ">> \o l.snippet

template_medication_response(patient_name, meds, labs, notes) ==
    LET head == Phrase(<<"Regarding", "medication", "management", "for">>)
                  \o <<" ">> \o patient_name \o <<":", "\n">>
        med_info == FirstAt(meds, {i \in 1..Len(meds) : MentionsLisinopril(meds[i])})
        k_lab == FirstAt(labs, {i \in 1..Len(labs) : IsPotassiumLab(labs[i])})
        cr_lab == FirstAt(labs, {i \in 1..Len(labs) : IsCreatinineLab(labs[i])})
        labPart == IF k_lab # <<>> \/ cr_lab # <<>>
                   THEN << <<"\n", "**", "Related", " ", "Lab", " ", "Values", ":**">> >>
                        \o [i \in 1..Len(k_lab) |-> LabLine(k_lab[i])]
                        \o [i \in 1..Len(cr_lab) |-> LabLine(cr_lab[i])]
                   ELSE <<>>
        notePart == IF notes # <<>>
                    THEN << <<"\n", "**", "Clinical", " ", "Documentation", ":**", " ",
                              "Found", " ", ToString(Len(notes)), " ">>
                              \o Phrase(<<"relevant", "notes", "discussing", "this", "decision">>) >>
                    ELSE <<>>
        body == IF med_info # <<>>
                THEN << <<"**", "Medication", " ", "Record", ":**", " ">> \o med_info[1].snippet >>
                     \o labPart \o notePart
                ELSE << Phrase(<<"Specific", "medication", "details", "found", "in",
                                 "the", "following", "sources:">>) >>
                     \o [i \in 1..Len(Take(meds, 3)) |-> LabLine(meds[i])]
    IN Join(<<head>> \o body, <<"\n">>)

template_risk_response(patient_name, sources) ==
    LET head == Phrase(<<"Risk", "assessment", "for">>) \o <<" ">> \o patient_name \o <<":", "\n">>
        fixed == << <<"**", "Top", " ", "Clinical", " ", "Considerations", ":**">>,
                    Phrase(<<"1.", "**Kidney", "Function", "Monitoring**", "-", "CKD", "Stage",
                             "3a", "requires", "close", "monitoring">>),
                    Phrase(<<"2.", "**Glycemic", "Control**", "-", "A1C", "trending,",
                             "continue", "optimization">>),
                    Phrase(<<"3.", "**Cardiovascular", "Risk**", "-", "Hypertension", "and",
                             "diabetes", "increase", "CV", "risk">>),
                    <<"\n", "**", "Based", " ", "on", " ", "Available", " ", "Sources", ":**">> >>
        listed == [i \in 1..Len(Take(sources, 3)) |->
                     <<"-", " ", "[", UpperSym(sources[i].source_type), "]", " ">>
                       \o sources[i].label]
    IN Join(<<head>> \o fixed \o listed, <<"\n">>)

GenericEntry(s) ==
    << <<"\n", "[", UpperSym(s.source_type), " ", "-", " ">> \o s.label \o <<"]">>,
       IF Len(s.snippet) > SnippetLimit
       THEN SubSeq(s.snippet, 1, SnippetLimit) \o <<"...">>
       ELSE s.snippet >>

template_generic_response(patient_name, sources) ==
    LET head == Phrase(<<"Based", "on", "the", "available", "records", "for">>)
                  \o <<" ">> \o patient_name \o <<":", "\n">>
        body == IF sources # <<>>
                THEN << <<"**", "Relevant", " ", "Information", " ", "Found", ":**">> >>
                     \o Concat([i \in 1..Len(Take(sources, 5)) |-> GenericEntry(sources[i])])
                ELSE << Phrase(<<"No", "relevant", "information", "found", "in", "the",
                                 "available", "records.">>),
                        Phrase(<<"Please", "try", "rephrasing", "your", "question", "or",
                                 "check", "that", "relevant", "data", "exists", "for",
                                 "this", "patient.">>) >>
    IN Join(<<head>> \o body, <<"\n">>)

\* the triggers are looked for without lower-casing the question
TemplateOfCaseSensitive(question) ==
    LET q == question
    IN IF \/ Contains(q, <<"last", " ", "90", " ", "days">>)
          \/ Contains(q, <<"changed">>)
          \/ Contains(q, <<"recent">>)
       THEN "changes"
       ELSE IF Contains(q, <<"lisinopril">>) \/ Contains(q, <<"dose">>)
       THEN "medication"
       ELSE IF Contains(q, <<"risk">>) \/ Contains(q, <<"action">>)
       THEN "risk"
       ELSE "generic"

\* the risk triggers are tested before the medication triggers
TemplateOfRiskFirst(question) ==
    LET q == Lower(question)
    IN IF \/ Contains(q, <<"last", " ", "90", " ", "days">>)
          \/ Contains(q, <<"changed">>)
          \/ Contains(q, <<"recent">>)
       THEN "changes"
       ELSE IF Contains(q, <<"risk">>) \/ Contains(q, <<"action">>)
       THEN "risk"
       ELSE IF Contains(q, <<"lisinopril">>) \/ Contains(q, <<"dose">>)
       THEN "medication"
       ELSE "generic"

\* which of the four templates the question selects
TemplateOf(question) ==
    LET q == Lower(question)
    IN IF \/ Contains(q, <<"last", " ", "90", " ", "days">>)
          \/ Contains(q, <<"changed">>)
          \/ Contains(q, <<"recent">>)
       THEN "changes"
       ELSE IF Contains(q, <<"lisinopril">>) \/ Contains(q, <<"dose">>)
       THEN "medication"
       ELSE IF Contains(q, <<"risk">>) \/ Contains(q, <<"action">>)
       THEN "risk"
       ELSE "generic"

\* without sources there is nothing to act on: no next actions
generate_template_response_needs_sources(question, patient_name, sources) ==
    LET t == TemplateOf(question)
        next_actions == CASE t = "changes" -> ChangesActions
                          [] t = "medication" -> MedicationActions
                          [] t = "risk" -> RiskActions
                          [] OTHER -> GenericActions
    IN [answer |-> CASE t = "changes" ->
                          template_changes_response(patient_name, OfType(sources, "note"),
                                                    OfType(sources, "lab"), OfType(sources, "med"))
                     [] t = "medication" ->
                          template_medication_response(patient_name, OfType(sources, "med"),
                                                       OfType(sources, "lab"),
                                                       OfType(sources, "note"))
                     [] t = "risk" -> template_risk_response(patient_name, sources)
                     [] OTHER -> template_generic_response(patient_name, sources),
        next_actions |-> IF sources = <<>> THEN <<>> ELSE next_actions,
        model |-> NoneVal]

generate_template_response(question, patient_name, sources) ==
    LET note_sources == OfType(sources, "note")
        lab_sources == OfType(sources, "lab")
        med_sources == OfType(sources, "med")
        t == TemplateOf(question)
    IN CASE t = "changes" ->
              [answer |-> template_changes_response(patient_name, note_sources,
                                                    lab_sources, med_sources),
               next_actions |-> ChangesActions, model |-> NoneVal]
         [] t = "medication" ->
              [answer |-> template_medication_response(patient_name, med_sources,
                                                       lab_sources, note_sources),
               next_actions |-> MedicationActions, model |-> NoneVal]
         [] t = "risk" ->
              [answer |-> template_risk_response(patient_name, sources),
               next_actions |-> RiskActions, model |-> NoneVal]
         [] OTHER ->
              [answer |-> template_generic_response(patient_name, sources),
               next_actions |-> GenericActions, model |-> NoneVal]

\* ------------------------------------------------------------------------
\* Settings (settings.py)
\* ------------------------------------------------------------------------
\* bool(v) of an Optional[str]
Truthy(v) == v # NoneVal /\ v # ""

\* only None counts as not configured
has_azure_openai_not_none(s) ==
    s.azure_openai_endpoint # NoneVal /\ s.azure_openai_key # NoneVal

has_azure_openai(s) == Truthy(s.azure_openai_endpoint) /\ Truthy(s.azure_openai_key)

azure_openai_chat_deployment == "gpt-5.2"

\* the values an Optional[str] setting takes in the model: unset, empty, set
OptionalStrings == {NoneVal, "", "configured"}

\* ------------------------------------------------------------------------
\* Context store rows and retrieval (retrieval.py)
\* ------------------------------------------------------------------------
\* metadata as the store returns it: None, a mapping, or JSON text that
\* encodes an object ("obj"), an array ("arr") or is not valid JSON ("bad")
MetaNone == [kind |-> "none", text |-> ""]

MetaDict == [kind |-> "dict", text |-> "obj"]

MetaText(t) == [kind |-> "str", text |-> t]

\* json.loads(metadata): the decoded value, or a raised error
json_loads(m) ==
    CASE m.text = "obj" -> [ok |-> TRUE, val |-> [kind |-> "dict", text |-> "obj"]]
      [] m.text = "arr" -> [ok |-> TRUE, val |-> [kind |-> "list", text |-> "arr"]]
      [] OTHER -> [ok |-> FALSE, val |-> m]

\* a score as the driver returns it (float or Decimal), in tenths
Score(k, t) == [kind |-> k, tenths |-> t]

\* float(score)
ToFloat(sc) == [kind |-> "float", tenths |-> sc.tenths]

VectorThreshold == 5

Row(t, id, label, snippet, score, metadata) ==
    [source_type |-> t, source_id |-> id, label |-> label, snippet |-> snippet,
     score |-> score, metadata |-> metadata]

Rows ==
    { Row("note", 1, <<"Visit", " ", "note">>, <<"BP", " ", "stable">>,
          Score("float", 7), MetaDict),
      Row("lab", 2, <<"Potassium">>, <<"4.1">>, Score("decimal", 9), MetaNone),
      Row("med", 3, <<"Lisinopril">>, <<"10mg", " ", "daily">>,
          Score("float", 3), MetaText("obj")),
      Row("note", 4, <<"Intake">>, <<"new", " ", "patient">>,
          Score("decimal", 5), MetaDict),
      Row("lab", 5, <<"eGFR">>, <<"55">>, Score("float", 6), MetaText("bad")),
      Row("med", 6, <<"Metformin">>, <<"500mg">>, Score("float", 2), MetaText("arr")) }

RECURSIVE SeqsUpTo(_, _)
SeqsUpTo(S, n) ==
    IF n = 0 THEN {<<>>}
    ELSE LET shorter == SeqsUpTo(S, n - 1)
         IN shorter \cup {Append(q, x) : q \in {r \in shorter : Len(r) = n - 1}, x \in S}

\* what the query of the context store can do: raise, or return rows
DbOutcomes ==
    {[ok |-> FALSE, rows |-> <<>>]}
      \cup {[ok |-> TRUE, rows |-> rs] : rs \in SeqsUpTo(Rows, MaxRows)}

\* the row as appended to processed_results
ProcessRow(r) ==
    [r EXCEPT !.score = ToFloat(r.score),
              !.metadata = IF r.metadata.kind = "str"
                           THEN json_loads(r.metadata).val ELSE r.metadata]

\* processing a row raises
RowFails(r) == r.metadata.kind = "str" /\ ~json_loads(r.metadata).ok

\* a failure is swallowed without the error tag
retrieve_context_untagged(d) ==
    IF ~d.ok \/ \E i \in 1..Len(d.rows) : RowFails(d.rows[i])
    THEN [results |-> <<>>, retrieval_method |-> "keyword"]
    ELSE [results |-> [i \in 1..Len(d.rows) |-> ProcessRow(d.rows[i])],
          retrieval_method |->
              IF \E i \in 1..Len(d.rows) :
                     /\ d.rows[i].source_type = "note"
                     /\ d.rows[i].score.tenths > VectorThreshold
              THEN "vector" ELSE "keyword"]

\* a note scoring exactly the threshold counts as a vector hit
retrieve_context_at_threshold(d) ==
    IF ~d.ok \/ \E i \in 1..Len(d.rows) : RowFails(d.rows[i])
    THEN [results |-> <<>>, retrieval_method |-> "error"]
    ELSE [results |-> [i \in 1..Len(d.rows) |-> ProcessRow(d.rows[i])],
          retrieval_method |->
              IF \E i \in 1..Len(d.rows) :
                     /\ d.rows[i].source_type = "note"
                     /\ d.rows[i].score.tenths >= VectorThreshold
              THEN "vector" ELSE "keyword"]

retrieve_context(d) ==
    IF ~d.ok \/ \E i \in 1..Len(d.rows) : RowFails(d.rows[i])
    THEN [results |-> <<>>, retrieval_method |-> "error"]
    ELSE LET has_vector_results ==
                 \E i \in 1..Len(d.rows) :
                     /\ d.rows[i].source_type = "note"
                     /\ d.rows[i].score.tenths > VectorThreshold
         IN [results |-> [i \in 1..Len(d.rows) |-> ProcessRow(d.rows[i])],
             retrieval_method |-> IF has_vector_results THEN "vector" ELSE "keyword"]

\* ------------------------------------------------------------------------
\* Prompt builder (llm.py)
\* ------------------------------------------------------------------------
NoContextPlaceholder == Phrase(<<"No", "relevant", "context", "found.">>)

\* f"[Source {i} - {source.source_type.upper()}] {source.label}:\n{source.snippet}"
ContextPart(i, source) ==
    <<"[Source", " ", ToString(i), " ", "-", " ", UpperSym(source.source_type), "]", " ">>
        \o source.label \o <<":", "\n">> \o source.snippet

\* the text after the context in the user prompt
PromptInstructions ==
    Phrase(<<"Please", "provide:">>) \o <<"\n">>
      \o Phrase(<<"1.", "A", "direct", "answer", "to", "the", "question", "based", "on",
                  "the", "context">>) \o <<"\n">>
      \o Phrase(<<"2.", "2-3", "recommended", "next", "actions", "for", "the", "care",
                  "team">>) \o <<"\n", "\n">>
      \o Phrase(<<"Format", "your", "response", "as:">>) \o <<"\n">>
      \o ANSWER_MARKER \o <<" ">>
      \o Phrase(<<"[Your", "answer", "here", "with", "citations]">>) \o <<"\n", "\n">>
      \o NEXT_ACTIONS_MARKER \o <<"\n">>
      \o <<"-", " ", "[Action", " ", "1]", "\n">>
      \o <<"-", " ", "[Action", " ", "2]", "\n">>
      \o <<"-", " ", "[Action", " ", "3]">>

\* the sources are numbered from 0
build_context_and_prompt_zero_based(question, patient_name, sources) ==
    LET context_parts == [i \in 1..Len(sources) |-> ContextPart(i - 1, sources[i])]
        context == IF context_parts # <<>> THEN Join(context_parts, <<"\n", "\n">>)
                   ELSE NoContextPlaceholder
    IN [context |-> context,
        user_input |-> <<"Patient:", " ">> \o patient_name \o <<"\n", "\n">>
                         \o <<"Question:", " ">> \o question \o <<"\n", "\n">>
                         \o <<"Relevant", " ", "Context:", "\n">> \o context \o <<"\n", "\n">>
                         \o PromptInstructions]

build_context_and_prompt(question, patient_name, sources) ==
    LET context_parts == [i \in 1..Len(sources) |-> ContextPart(i, sources[i])]
        context == IF context_parts # <<>> THEN Join(context_parts, <<"\n", "\n">>)
                   ELSE NoContextPlaceholder
    IN [context |-> context,
        user_input |-> <<"Patient:", " ">> \o patient_name \o <<"\n", "\n">>
                         \o <<"Question:", " ">> \o question \o <<"\n", "\n">>
                         \o <<"Relevant", " ", "Context:", "\n">> \o context \o <<"\n", "\n">>
                         \o PromptInstructions]

\* ------------------------------------------------------------------------
\* Conversion to CopilotSource (copilot.py, schemas.py)
\* ------------------------------------------------------------------------
\* CopilotSource validation: metadata is Optional[dict]
ValidSource(r) == r.metadata.kind \in {"none", "dict"}

CopilotSource(r) ==
    [source_type |-> r.source_type, source_id |-> r.source_id, label |-> r.label,
     snippet |-> r.snippet, score |-> r.score, metadata |-> r.metadata]

ConvertSources(results) ==
    IF \A i \in 1..Len(results) : ValidSource(results[i])
    THEN [ok |-> TRUE, sources |-> [i \in 1..Len(results) |-> CopilotSource(results[i])]]
    ELSE [ok |-> FALSE, sources |-> <<>>]

\* ------------------------------------------------------------------------
\* Non-streaming generation (llm.py)
\* ------------------------------------------------------------------------
\* what the hosted model can do in the non-streaming call: the client cannot
\* be built, the API call raises, the response has no output text (parsing
\* raises), or a completion text is returned
CompletionTexts ==
    { <<"ANSWER:", " ", "stable", "\n", "\n", "NEXT", " ", "ACTIONS:", "\n",
        "-", " ", "recheck", "\n", "-", " ", "refer">>,
      <<"stable", " ", "overall">>,
      <<"NEXT", " ", "ACTIONS:">> }

HostedOutcomes ==
    {[kind |-> k, text |-> <<>>] : k \in {"client_error", "api_error", "no_text"}}
      \cup {[kind |-> "ok", text |-> t] : t \in CompletionTexts}

\* a response without output text is parsed as empty text instead of failing
generate_with_openai_no_text(question, patient_name, srcs, h) ==
    IF h.kind \in {"ok", "no_text"}
    THEN LET parsed == parse_llm_response(h.text)
         IN [answer |-> parsed.answer, next_actions |-> parsed.next_actions,
             model |-> azure_openai_chat_deployment]
    ELSE generate_template_response(question, patient_name, srcs)

generate_with_openai(question, patient_name, srcs, h) ==
    IF h.kind = "ok"
    THEN LET parsed == parse_llm_response(h.text)
         IN [answer |-> parsed.answer, next_actions |-> parsed.next_actions,
             model |-> azure_openai_chat_deployment]
    ELSE generate_template_response(question, patient_name, srcs)

generate_answer(s, question, patient_name, srcs, h) ==
    IF has_azure_openai(s)
    THEN generate_with_openai(question, patient_name, srcs, h)
    ELSE generate_template_response(question, patient_name, srcs)

\* ------------------------------------------------------------------------
\* Server-sent events (llm.py, copilot.py)
\* ------------------------------------------------------------------------
MetadataEvent(method) == [type |-> "metadata", data |-> [retrieval_method |-> method]]

SourceEvent(source) ==
    [type |-> "source",
     data |-> [source_type |-> source.source_type, source_id |-> source.source_id,
               label |-> source.label, snippet |-> source.snippet,
               score |-> source.score, metadata |-> source.metadata]]

DeltaEvent(text) == [type |-> "delta", data |-> [text |-> text]]

ActionsEvent(next_actions) == [type |-> "actions", data |-> [actions |-> next_actions]]

DoneEvent(model, method) ==
    [type |-> "done", data |-> [model |-> model, retrieval_method |-> method]]

ErrorEvent(message) == [type |-> "error", data |-> [error |-> message]]

\* " ".join(words[i:i+3]) + " "
\* the third word of each group is left out
ChunkDropsThird(words, i) ==
    Join(SubSeq(words, i, IF i + 1 > Len(words) THEN Len(words) ELSE i + 1), <<" ">>)
      \o <<" ">>

Chunk(words, i) ==
    Join(SubSeq(words, i, IF i + 2 > Len(words) THEN Len(words) ELSE i + 2), <<" ">>)
      \o <<" ">>

\* the text fragments the hosted model streams
Fragments ==
    { <<"ANSWER:", " ", "stable">>,
      <<"\n", "NEXT">>,
      <<" ", "ACTIONS:", "\n", "-", " ", "recheck">>,
      <<"\n", "(bullet)", "refer">> }

\* the events of the model's stream: text deltas and events of another type
ModelEvents ==
    {[type |-> "response.output_text.delta", delta |-> f] : f \in Fragments}
      \cup {[type |-> "response.created", delta |-> <<>>]}

\* ------------------------------------------------------------------------
\* Requests
\* ------------------------------------------------------------------------
PatientName == <<"Jane", " ", "Doe">>

Questions ==
    { <<"What", " ", "Changed", " ", "since", " ", "spring">>,
      <<"Dose", " ", "and", " ", "risk">>,
      <<"any", " ", "action", " ", "needed">>,
      <<"summary", " ", "please">> }

\* the outcome of the patient lookup that opens both handlers
PatientLookups == {"found", "missing"}

\* ------------------------------------------------------------------------
\* State
\* ------------------------------------------------------------------------
VARIABLES
    settings,          \* the cached Settings instance
    pc,                \* where the request handler / stream generator stands
    request,           \* path, question and patient lookup of the request
    db,                \* what the context store did for this request
    hosted,            \* what the hosted model did for this request
    sources,           \* the CopilotSource list of the request
    retrieval_method,  \* the tag retrieve_context returned
    events,            \* the server-sent events emitted on the stream so far
    srcIdx,            \* position of the source loop
    template,          \* answer, next_actions of the template backend, and its words
    wordIdx,           \* position of the word-group loop
    full_text,         \* text accumulated from the model's deltas
    consumed,          \* number of model events consumed
    calls,             \* calls made to the collaborators and backends
    response,          \* the HTTP response of the request
    cancelled,         \* the client disconnected
    held,              \* the stream generator holds a database connection
    arg,               \* the input of a function applied on its own
    result,            \* what that function returned
    clinical_actions,  \* the clinical_actions table and the statements run on it
    pool_cfg,          \* db_pool_min_size and db_pool_max_size of the settings
    app,               \* lifespan of the application
    pool,              \* _pool: the idle connections
    pool_size,         \* _pool_size
    pool_lock,         \* the request holding _pool_lock, 0 when free
    rpc,               \* where each request stands in get_connection
    conn,              \* the connection each request holds, 0 for None
    created,           \* number of connections opened so far
    closed             \* the connections that were closed

\* the variables of the copilot pipeline
pipelineVars ==
    <<settings, pc, request, db, hosted, sources, retrieval_method, events, srcIdx,
      template, wordIdx, full_text, consumed, calls, response, cancelled, held>>

\* the variables of a function applied on its own
fnVars == <<arg, result, clinical_actions>>

\* the variables of the connection pool
poolVars == <<pool_cfg, app, pool, pool_size, pool_lock, rpc, conn, created, closed>>

vars == <<pipelineVars, fnVars, poolVars>>

NoRequest == [path |-> "none", question |-> <<>>, patient |-> "none"]

NoDb == [ok |-> TRUE, rows |-> <<>>]

NoHosted == [kind |-> "unused", text |-> <<>>]

NoTemplate == [answer |-> <<>>, next_actions |-> <<>>, words |-> <<>>]

NoCalls == [store |-> 0, hosted |-> 0, api |-> 0, template |-> 0]

NoResponse ==
    [status |-> 0, answer |-> <<>>, next_actions |-> <<>>, sources |-> <<>>,
     model_used |-> NoneVal, retrieval_method |-> ""]

StatusResponse(code) == [NoResponse EXCEPT !.status = code]

\* the per-request state before a request arrives
Fresh ==
    /\ pc = "idle"
    /\ request = NoRequest
    /\ db = NoDb
    /\ hosted = NoHosted
    /\ sources = <<>>
    /\ retrieval_method = ""
    /\ events = <<>>
    /\ srcIdx = 1
    /\ template = NoTemplate
    /\ wordIdx = 1
    /\ full_text = <<>>
    /\ consumed = 0
    /\ calls = NoCalls
    /\ response = NoResponse
    /\ cancelled = FALSE
    /\ held = FALSE

\* no function is being applied on its own
NoArg == [kind |-> "none"]

NoResult == [kind |-> "none"]

\* no statement was run on the clinical_actions table
NoStatements == [rows |-> {}, statements |-> <<>>]

FnIdle == arg = NoArg /\ result = NoResult /\ clinical_actions = NoStatements

Requests == 1..NumRequests

\* db.py as imported, with the default pool settings: nothing started
PoolIdle ==
    /\ pool_cfg = [db_pool_min_size |-> 2, db_pool_max_size |-> 10]
    /\ app = "starting"
    /\ pool = <<>>
    /\ pool_size = 5
    /\ pool_lock = 0
    /\ rpc = [r \in Requests |-> "idle"]
    /\ conn = [r \in Requests |-> 0]
    /\ created = 0
    /\ closed = {}

\* no copilot request, Azure OpenAI not configured
PipelineIdle ==
    /\ settings = [azure_openai_endpoint |-> NoneVal, azure_openai_key |-> NoneVal]
    /\ Fresh

Init ==
    /\ settings \in [azure_openai_endpoint : OptionalStrings,
                     azure_openai_key : OptionalStrings]
    /\ Fresh
    /\ FnIdle
    /\ PoolIdle

\* ------------------------------------------------------------------------
\* POST /patients/{id}/copilot:ask (copilot.py ask_copilot)
\* ------------------------------------------------------------------------
AskResponse(question, d, h) ==
    LET r == retrieve_context(d)
        conv == ConvertSources(r.results)
        gen == generate_answer(settings, question, PatientName, conv.sources, h)
    IN IF ~conv.ok THEN StatusResponse(500)
       ELSE [status |-> 200, answer |-> gen.answer, next_actions |-> gen.next_actions,
             sources |-> conv.sources, model_used |-> gen.model,
             retrieval_method |-> r.retrieval_method]

AskCalls(d, h) ==
    LET conv == ConvertSources(retrieve_context(d).results)
        useHosted == conv.ok /\ has_azure_openai(settings)
    IN [store |-> 1,
        hosted |-> IF useHosted THEN 1 ELSE 0,
        api |-> IF useHosted /\ h.kind # "client_error" THEN 1 ELSE 0,
        template |-> IF conv.ok /\ (~useHosted \/ h.kind # "ok") THEN 1 ELSE 0]

ask_copilot ==
    /\ pc = "idle"
    /\ \E question \in Questions, patient \in PatientLookups,
          d \in DbOutcomes, h \in HostedOutcomes :
         /\ request' = [path |-> "ask", question |-> question, patient |-> patient]
         /\ IF patient # "found"
            THEN /\ response' = StatusResponse(404)
                 /\ UNCHANGED <<db, hosted, sources, retrieval_method, calls>>
            ELSE /\ db' = d
                 /\ retrieval_method' = retrieve_context(d).retrieval_method
                 /\ sources' = ConvertSources(retrieve_context(d).results).sources
                 /\ calls' = AskCalls(d, h)
                 /\ hosted' = IF calls'.hosted = 1 THEN h ELSE NoHosted
                 /\ response' = AskResponse(question, d, h)
    /\ pc' = "closed"
    /\ UNCHANGED <<settings, events, srcIdx, template, wordIdx, full_text, consumed,
                   cancelled>>
    /\ UNCHANGED <<held, fnVars, poolVars>>

\* ------------------------------------------------------------------------
\* POST /patients/{id}/copilot:stream (copilot.py stream_copilot)
\* ------------------------------------------------------------------------
\* the stream is opened before the patient is looked at
stream_copilot_opens_first ==
    /\ pc = "idle"
    /\ \E question \in Questions, patient \in PatientLookups :
         /\ request' = [path |-> "stream", question |-> question, patient |-> patient]
         /\ response' = StatusResponse(200)
         /\ pc' = "generate_stream"
    /\ UNCHANGED <<settings, db, hosted, sources, retrieval_method, events, srcIdx,
                   template, wordIdx, full_text, consumed, calls, cancelled>>
    /\ UNCHANGED <<held, fnVars, poolVars>>

stream_copilot ==
    /\ pc = "idle"
    /\ \E question \in Questions, patient \in PatientLookups :
         /\ request' = [path |-> "stream", question |-> question, patient |-> patient]
         /\ IF patient # "found"
            THEN response' = StatusResponse(404) /\ pc' = "closed"
            ELSE response' = StatusResponse(200) /\ pc' = "generate_stream"
    /\ UNCHANGED <<settings, db, hosted, sources, retrieval_method, events, srcIdx,
                   template, wordIdx, full_text, consumed, calls, cancelled>>
    /\ UNCHANGED <<held, fnVars, poolVars>>

\* generate_stream is started: retrieve_context sends its query on a
\* connection taken from the pool and awaits the worker thread
execute_query ==
    /\ pc = "generate_stream"
    /\ pc' = "retrieving"
    /\ held' = TRUE
    /\ UNCHANGED <<settings, request, db, hosted, sources, retrieval_method, events, srcIdx,
                   template, wordIdx, full_text, consumed, calls, response, cancelled>>
    /\ UNCHANGED <<fnVars, poolVars>>

\* generate_stream from the answer of the query to its first yield: the
\* connection is given back, then retrieval result, conversion, metadata
generate_stream ==
    /\ pc = "retrieving"
    /\ held' = FALSE
    /\ \E d \in DbOutcomes :
         LET r == retrieve_context(d)
             conv == ConvertSources(r.results)
         IN /\ db' = d
            /\ calls' = [calls EXCEPT !.store = @ + 1]
            /\ retrieval_method' = r.retrieval_method
            /\ sources' = conv.sources
            /\ IF conv.ok
               THEN /\ events' = Append(events, MetadataEvent(r.retrieval_method))
                    /\ pc' = "generate_answer_stream"
               ELSE /\ events' = Append(events, ErrorEvent("validation"))
                    /\ pc' = "closed"
    /\ UNCHANGED <<settings, request, hosted, srcIdx, template, wordIdx, full_text,
                   consumed, response, cancelled>>
    /\ UNCHANGED <<fnVars, poolVars>>

\* generate_answer_stream picks the backend; the template backend computes its
\* whole answer, the hosted backend builds its client
generate_answer_stream ==
    /\ pc = "generate_answer_stream"
    /\ IF ~has_azure_openai(settings)
       THEN LET t == generate_template_response(request.question, PatientName, sources)
            IN /\ template' = [answer |-> t.answer, next_actions |-> t.next_actions,
                               words |-> SplitWords(t.answer)]
               /\ calls' = [calls EXCEPT !.template = @ + 1]
               /\ pc' = "template"
               /\ UNCHANGED <<hosted, events>>
       ELSE /\ calls' = [calls EXCEPT !.hosted = @ + 1]
            /\ UNCHANGED template
            /\ \E ok \in BOOLEAN :
                 IF ok
                 THEN /\ hosted' = [kind |-> "client", text |-> <<>>]
                      /\ pc' = "hosted"
                      /\ UNCHANGED events
                 ELSE /\ hosted' = [kind |-> "client_error", text |-> <<>>]
                      /\ events' = Append(events, ErrorEvent("client"))
                      /\ pc' = "closed"
    /\ UNCHANGED <<settings, request, db, sources, retrieval_method, srcIdx, wordIdx,
                   full_text, consumed, response, cancelled>>
    /\ UNCHANGED <<held, fnVars, poolVars>>

\* a source already sent is not sent again
EmitSourceDeduplicated ==
    /\ pc \in {"template", "hosted"}
    /\ srcIdx <= Len(sources)
    /\ events' = IF \E i \in 1..(srcIdx - 1) : sources[i] = sources[srcIdx]
                 THEN events
                 ELSE Append(events, SourceEvent(sources[srcIdx]))
    /\ srcIdx' = srcIdx + 1
    /\ UNCHANGED <<settings, pc, request, db, hosted, sources, retrieval_method,
                   template, wordIdx, full_text, consumed, calls, response, cancelled>>
    /\ UNCHANGED <<held, fnVars, poolVars>>

\* one turn of the loop over sources, in either backend
EmitSource ==
    /\ pc \in {"template", "hosted"}
    /\ srcIdx <= Len(sources)
    /\ events' = Append(events, SourceEvent(sources[srcIdx]))
    /\ srcIdx' = srcIdx + 1
    /\ UNCHANGED <<settings, pc, request, db, hosted, sources, retrieval_method,
                   template, wordIdx, full_text, consumed, calls, response, cancelled>>
    /\ UNCHANGED <<held, fnVars, poolVars>>

\* word groups are sent without waiting for the source loop
TemplateDeltaEarly ==
    /\ pc = "template"
    /\ wordIdx <= Len(template.words)
    /\ events' = Append(events, DeltaEvent(Chunk(template.words, wordIdx)))
    /\ wordIdx' = wordIdx + 3
    /\ UNCHANGED <<settings, pc, request, db, hosted, sources, retrieval_method, srcIdx,
                   template, full_text, consumed, calls, response, cancelled>>
    /\ UNCHANGED <<held, fnVars, poolVars>>

\* template backend: one word group
TemplateDelta ==
    /\ pc = "template"
    /\ srcIdx > Len(sources)
    /\ wordIdx <= Len(template.words)
    /\ events' = Append(events, DeltaEvent(Chunk(template.words, wordIdx)))
    /\ wordIdx' = wordIdx + 3
    /\ UNCHANGED <<settings, pc, request, db, hosted, sources, retrieval_method, srcIdx,
                   template, full_text, consumed, calls, response, cancelled>>
    /\ UNCHANGED <<held, fnVars, poolVars>>

TemplateActions ==
    /\ pc = "template"
    /\ srcIdx > Len(sources)
    /\ wordIdx > Len(template.words)
    /\ events' = Append(events, ActionsEvent(template.next_actions))
    /\ pc' = "template_actions_sent"
    /\ UNCHANGED <<settings, request, db, hosted, sources, retrieval_method, srcIdx,
                   template, wordIdx, full_text, consumed, calls, response, cancelled>>
    /\ UNCHANGED <<held, fnVars, poolVars>>

TemplateDone ==
    /\ pc = "template_actions_sent"
    /\ events' = Append(events, DoneEvent(NoneVal, "template"))
    /\ pc' = "closed"
    /\ UNCHANGED <<settings, request, db, hosted, sources, retrieval_method, srcIdx,
                   template, wordIdx, full_text, consumed, calls, response, cancelled>>
    /\ UNCHANGED <<held, fnVars, poolVars>>

\* hosted backend: the streaming API call, after all sources were sent
HostedCall ==
    /\ pc = "hosted"
    /\ srcIdx > Len(sources)
    /\ calls' = [calls EXCEPT !.api = @ + 1]
    /\ \E ok \in BOOLEAN :
         IF ok
         THEN /\ hosted' = [kind |-> "streaming", text |-> <<>>]
              /\ pc' = "hosted_stream"
              /\ UNCHANGED events
         ELSE /\ hosted' = [kind |-> "api_error", text |-> <<>>]
              /\ events' = Append(events, ErrorEvent("api"))
              /\ pc' = "closed"
    /\ UNCHANGED <<settings, request, db, sources, retrieval_method, srcIdx, template,
                   wordIdx, full_text, consumed, response, cancelled>>
    /\ UNCHANGED <<held, fnVars, poolVars>>

\* the accumulated text is overwritten by each fragment
HostedEventOverwrites ==
    /\ pc = "hosted_stream"
    /\ consumed < MaxFragments
    /\ \E event \in ModelEvents :
         /\ hosted' = [hosted EXCEPT !.text = Append(@, event)]
         /\ IF event.type = "response.output_text.delta"
            THEN /\ full_text' = event.delta
                 /\ events' = Append(events, DeltaEvent(event.delta))
            ELSE UNCHANGED <<full_text, events>>
    /\ consumed' = consumed + 1
    /\ UNCHANGED <<settings, pc, request, db, sources, retrieval_method, srcIdx,
                   template, wordIdx, calls, response, cancelled>>
    /\ UNCHANGED <<held, fnVars, poolVars>>

\* each fragment is trimmed before it is forwarded
HostedEventForwardsStripped ==
    /\ pc = "hosted_stream"
    /\ consumed < MaxFragments
    /\ \E event \in ModelEvents :
         /\ hosted' = [hosted EXCEPT !.text = Append(@, event)]
         /\ IF event.type = "response.output_text.delta"
            THEN /\ full_text' = full_text \o event.delta
                 /\ events' = Append(events, DeltaEvent(Strip(event.delta)))
            ELSE UNCHANGED <<full_text, events>>
    /\ consumed' = consumed + 1
    /\ UNCHANGED <<settings, pc, request, db, sources, retrieval_method, srcIdx,
                   template, wordIdx, calls, response, cancelled>>
    /\ UNCHANGED <<held, fnVars, poolVars>>

\* hosted backend: one event of the model's stream is consumed. At the
\* yield of a delta after the client has gone, the server either closes
\* the generator or, not having seen the disconnect, resumes it.
HostedEvent ==
    /\ pc = "hosted_stream"
    /\ consumed < MaxFragments
    /\ \E event \in ModelEvents, noticed \in BOOLEAN :
         /\ hosted' = [hosted EXCEPT !.text = Append(@, event)]
         /\ IF event.type = "response.output_text.delta"
            THEN /\ full_text' = full_text \o event.delta
                 /\ IF cancelled /\ noticed
                    THEN events' = events /\ pc' = "closed"
                    ELSE events' = Append(events, DeltaEvent(event.delta)) /\ pc' = pc
            ELSE UNCHANGED <<full_text, events, pc>>
    /\ consumed' = consumed + 1
    /\ UNCHANGED <<settings, request, db, sources, retrieval_method, srcIdx,
                   template, wordIdx, calls, response, cancelled>>
    /\ UNCHANGED <<held, fnVars, poolVars>>

\* the streaming path falls back to the template backend like the
\* non-streaming path does
HostedStreamErrorFallsBack ==
    /\ pc = "hosted_stream"
    /\ hosted' = [hosted EXCEPT !.kind = "stream_error"]
    /\ LET t == generate_template_response(request.question, PatientName, sources)
       IN template' = [answer |-> t.answer, next_actions |-> t.next_actions,
                       words |-> SplitWords(t.answer)]
    /\ calls' = [calls EXCEPT !.template = @ + 1]
    /\ pc' = "template"
    /\ UNCHANGED <<settings, request, db, sources, retrieval_method, events, srcIdx,
                   wordIdx, full_text, consumed, response, cancelled>>
    /\ UNCHANGED <<held, fnVars, poolVars>>

\* the error event is sent but the generator goes on
HostedStreamErrorGoesOn ==
    /\ pc = "hosted_stream"
    /\ hosted.kind # "stream_error"
    /\ hosted' = [hosted EXCEPT !.kind = "stream_error"]
    /\ events' = Append(events, ErrorEvent("stream"))
    /\ UNCHANGED <<settings, pc, request, db, sources, retrieval_method, srcIdx, template,
                   wordIdx, full_text, consumed, calls, response, cancelled>>
    /\ UNCHANGED <<held, fnVars, poolVars>>

\* hosted backend: the model's stream raises
HostedStreamError ==
    /\ pc = "hosted_stream"
    /\ hosted' = [hosted EXCEPT !.kind = "stream_error"]
    /\ \E noticed \in BOOLEAN :
         events' = IF cancelled /\ noticed THEN events
                   ELSE Append(events, ErrorEvent("stream"))
    /\ pc' = "closed"
    /\ UNCHANGED <<settings, request, db, sources, retrieval_method, srcIdx, template,
                   wordIdx, full_text, consumed, calls, response, cancelled>>
    /\ UNCHANGED <<held, fnVars, poolVars>>

\* hosted backend: the model's stream is exhausted
HostedActions ==
    /\ pc = "hosted_stream"
    /\ hosted' = [hosted EXCEPT !.kind = "ok"]
    /\ \E noticed \in BOOLEAN :
         IF cancelled /\ noticed
         THEN events' = events /\ pc' = "closed"
         ELSE /\ events' = Append(events,
                                  ActionsEvent(parse_llm_response(full_text).next_actions))
              /\ pc' = "hosted_actions_sent"
    /\ UNCHANGED <<settings, request, db, sources, retrieval_method, srcIdx, template,
                   wordIdx, full_text, consumed, calls, response, cancelled>>
    /\ UNCHANGED <<held, fnVars, poolVars>>

HostedDone ==
    /\ pc = "hosted_actions_sent"
    /\ events' = Append(events, DoneEvent(azure_openai_chat_deployment, "vector"))
    /\ pc' = "closed"
    /\ UNCHANGED <<settings, request, db, hosted, sources, retrieval_method, srcIdx,
                   template, wordIdx, full_text, consumed, calls, response, cancelled>>
    /\ UNCHANGED <<held, fnVars, poolVars>>

StreamOpen ==
    pc \in {"generate_stream", "retrieving", "generate_answer_stream", "template",
            "template_actions_sent", "hosted", "hosted_stream", "hosted_actions_sent"}

\* the client goes away. A generator suspended at an await or a yield is
\* closed there, and the finally block of get_connection gives a held
\* connection back. Inside the synchronous loop over the model's stream
\* (for event in stream) the generator is running: nothing can be raised
\* into it before its next yield.
ClientDisconnect ==
    /\ StreamOpen
    /\ ~cancelled
    /\ cancelled' = TRUE
    /\ IF pc = "hosted_stream"
       THEN UNCHANGED <<pc, held>>
       ELSE pc' = "closed" /\ held' = FALSE
    /\ UNCHANGED <<settings, request, db, hosted, sources, retrieval_method, events,
                   srcIdx, template, wordIdx, full_text, consumed, calls, response>>
    /\ UNCHANGED <<fnVars, poolVars>>

\* the next request: all per-request state is created afresh
NextRequest ==
    /\ pc = "closed"
    /\ pc' = "idle"
    /\ request' = NoRequest
    /\ db' = NoDb
    /\ hosted' = NoHosted
    /\ sources' = <<>>
    /\ retrieval_method' = ""
    /\ events' = <<>>
    /\ srcIdx' = 1
    /\ template' = NoTemplate
    /\ wordIdx' = 1
    /\ full_text' = <<>>
    /\ consumed' = 0
    /\ calls' = NoCalls
    /\ response' = NoResponse
    /\ cancelled' = FALSE
    /\ held' = FALSE
    /\ UNCHANGED settings
    /\ UNCHANGED <<fnVars, poolVars>>

Next ==
    \/ ask_copilot
    \/ stream_copilot
    \/ execute_query
    \/ generate_stream
    \/ generate_answer_stream
    \/ EmitSource
    \/ TemplateDelta
    \/ TemplateActions
    \/ TemplateDone
    \/ HostedCall
    \/ HostedEvent
    \/ HostedStreamError
    \/ HostedActions
    \/ HostedDone
    \/ ClientDisconnect
    \/ NextRequest

Spec == Init /\ [][Next]_vars

\* ------------------------------------------------------------------------
\* Properties of the event stream
\* ------------------------------------------------------------------------
Types(evs) == [i \in 1..Len(evs) |-> evs[i].type]

Count(evs, t) == Cardinality({i \in 1..Len(evs) : evs[i].type = t})

Positions(evs, t) == {i \in 1..Len(evs) : evs[i].type = t}

Repeat(t, n) == [i \in 1..n |-> t]

\* the stream's generator has finished and the client was there to the end
StreamEnded ==
    pc = "closed" /\ request.path = "stream" /\ response.status = 200 /\ ~cancelled

LastType == IF events = <<>> THEN "none" ELSE events[Len(events)].type

\* source*, metadata, delta+, actions, done
SuccessShape(ts) ==
    LET n == Cardinality({i \in 1..Len(ts) : ts[i] = "source"})
        m == Cardinality({i \in 1..Len(ts) : ts[i] = "delta"})
    IN /\ m >= 1
       /\ ts = Repeat("source", n) \o <<"metadata">> \o Repeat("delta", m)
                 \o <<"actions", "done">>

\* a prefix of some sequence of that shape
SuccessPrefix(ts) ==
    LET n == Cardinality({i \in 1..Len(ts) : ts[i] = "source"})
        m == Cardinality({i \in 1..Len(ts) : ts[i] = "delta"})
        full == Repeat("source", n) \o <<"metadata">>
                  \o Repeat("delta", IF m = 0 THEN 1 ELSE m) \o <<"actions", "done">>
    IN Len(ts) <= Len(full) /\ ts = SubSeq(full, 1, Len(ts))

\* C1: every stream that runs to its end emits source*, metadata, delta+,
\* actions, done, or a prefix of such a sequence followed by error.
C1_EventOrder ==
    StreamEnded =>
        \/ LastType = "done" /\ SuccessShape(Types(events))
        \/ /\ LastType = "error"
           /\ SuccessPrefix(SubSeq(Types(events), 1, Len(events) - 1))

\* C2: a stream the client does not cancel ends with exactly one terminal
\* event (done or error), the terminal event is never repeated or followed by
\* both kinds, and no event comes after it.
C2_OneTerminalEvent ==
    LET terminal == Positions(events, "done") \cup Positions(events, "error")
    IN /\ Cardinality(terminal) <= 1
       /\ terminal # {} => terminal = {Len(events)} /\ pc = "closed"
       /\ StreamEnded => Cardinality(terminal) = 1

C2_Witness ==
    /\ StreamEnded
    /\ LastType = "error"
    /\ Count(events, "delta") >= 1

\* C3: no source event follows a delta event and no delta event follows the
\* actions event.
C3_PhasesMonotone ==
    \A i, j \in 1..Len(events) :
        i < j => /\ ~(events[i].type = "delta" /\ events[j].type = "source")
                 /\ ~(events[i].type = "actions" /\ events[j].type = "delta")

C3_Witness ==
    /\ Count(events, "source") >= 2
    /\ Count(events, "delta") >= 2
    /\ Count(events, "actions") = 1

\* C4: the done event of a completed stream carries the retrieval-method tag
\* that retrieval computed for the request (the one of the metadata event), and
\* the configured model for the hosted backend, None for the template backend.
C4_DoneCarriesRetrievalMethod ==
    (StreamEnded /\ LastType = "done") =>
        LET done == events[Len(events)].data
        IN /\ done.retrieval_method = retrieval_method
           /\ done.retrieval_method = events[1].data.retrieval_method
           /\ done.model = IF calls.hosted >= 1
                           THEN azure_openai_chat_deployment ELSE NoneVal

\* ------------------------------------------------------------------------
\* Properties of failure handling and backend selection
\* ------------------------------------------------------------------------
\* the context store was queried and the query, or the decoding of a row, failed
RetrievalFailed ==
    /\ calls.store >= 1
    /\ \/ ~db.ok
       \/ \E i \in 1..Len(db.rows) : db.rows[i].metadata = MetaText("bad")

\* the hosted model failed in a stream whose client is still there
HostedStreamFailed ==
    /\ request.path = "stream"
    /\ hosted.kind \in {"client_error", "api_error", "stream_error"}
    /\ ~cancelled

HostedAskFailed ==
    request.path = "ask" /\ hosted.kind \in {"client_error", "api_error", "no_text"}

\* C5: when the context-store query or the processing of a row fails,
\* retrieval yields no sources tagged error; the ask endpoint still answers
\* with status 200 from zero sources, and the stream opens with that tag, sends
\* no source and, unless the hosted model itself fails, ends with done.
C5_RetrievalFailureDegrades ==
    RetrievalFailed =>
        /\ retrieval_method = "error"
        /\ sources = <<>>
        /\ request.path = "ask" =>
             /\ response.status = 200
             /\ response.retrieval_method = "error"
             /\ response.sources = <<>>
             /\ response.model_used = NoneVal =>
                  response.answer =
                      generate_template_response(request.question, PatientName, <<>>).answer
        /\ request.path = "stream" =>
             /\ events # <<>>
             /\ events[1].type = "metadata"
             /\ events[1].data.retrieval_method = "error"
             /\ Count(events, "source") = 0
             /\ (StreamEnded /\ ~HostedStreamFailed) => LastType = "done"

C5_Witness ==
    /\ RetrievalFailed
    /\ db.ok
    /\ StreamEnded
    /\ LastType = "done"

\* C6: a failed hosted call in the ask endpoint is not propagated: the
\* response is the template backend's answer and actions for the same inputs
\* with model_used None, and its retrieval_method and sources are those of a
\* successful hosted call.
C6_HostedFailureFallsBack ==
    HostedAskFailed =>
        LET t == generate_template_response(request.question, PatientName, sources)
        IN /\ response.status = 200
           /\ response.answer = t.answer
           /\ response.next_actions = t.next_actions
           /\ response.model_used = NoneVal
           /\ \A text \in CompletionTexts :
                LET good == AskResponse(request.question, db, [kind |-> "ok", text |-> text])
                IN /\ response.retrieval_method = good.retrieval_method
                   /\ response.sources = good.sources

C6_Witness ==
    /\ HostedAskFailed
    /\ hosted.kind = "no_text"
    /\ Len(response.sources) >= 1

\* C7: a failure of the hosted model in a stream appends exactly one error
\* event to the events already emitted and ends the stream; the template
\* backend is not invoked and nothing follows the error.
C7_StreamFailureIsOneError ==
    /\ [](HostedStreamFailed =>
            /\ pc = "closed"
            /\ LastType = "error"
            /\ Count(events, "error") = 1
            /\ calls.template = 0)
    /\ [][(HostedStreamFailed' /\ ~HostedStreamFailed) =>
            /\ Len(events') = Len(events) + 1
            /\ SubSeq(events', 1, Len(events)) = events]_vars

C7_Witness ==
    /\ HostedStreamFailed
    /\ hosted.kind = "stream_error"
    /\ Count(events, "delta") >= 1

\* both the endpoint and the credential are present and non-empty
Configured ==
    /\ settings.azure_openai_endpoint \notin {NoneVal, ""}
    /\ settings.azure_openai_key \notin {NoneVal, ""}

\* C8: the hosted backend is attempted exactly when endpoint and credential
\* are both configured; otherwise the template backend produces the answer and
\* the hosted API is never called; one stream uses one backend only.
C8_BackendSelection ==
    /\ calls.hosted >= 1 => Configured
    /\ (Configured /\ calls.hosted + calls.template >= 1) => calls.hosted = 1
    /\ ~Configured =>
         /\ calls.hosted = 0
         /\ calls.api = 0
         /\ response.model_used = NoneVal
         /\ LastType = "done" => events[Len(events)].data.model = NoneVal
         /\ (request.path = "ask" /\ response.status = 200) =>
              /\ calls.template = 1
              /\ response.answer =
                   generate_template_response(request.question, PatientName, sources).answer
    /\ request.path = "stream" => calls.hosted + calls.template <= 1
    /\ (Configured /\ LastType = "done") =>
         events[Len(events)].data.model = azure_openai_chat_deployment

C8_Witness ==
    /\ settings.azure_openai_endpoint = "configured"
    /\ settings.azure_openai_key = ""
    /\ StreamEnded
    /\ LastType = "done"
    /\ calls.template = 1

\* ------------------------------------------------------------------------
\* Properties of the payloads
\* ------------------------------------------------------------------------
\* the in-order concatenation of the text of the delta events
RECURSIVE DeltaText(_)
DeltaText(evs) ==
    IF evs = <<>> THEN <<>>
    ELSE (IF Head(evs).type = "delta" THEN Head(evs).data.text ELSE <<>>)
         \o DeltaText(Tail(evs))

\* the list carried by the actions event
ActionsSent == events[CHOOSE i \in Positions(events, "actions") : TRUE].data.actions

\* C9 as claimed: for both backends the actions event carries the
\* next_actions the parser yields on the concatenated delta text.
C9_ActionsAreParsedFromDeltas ==
    Positions(events, "actions") # {} =>
        ActionsSent = parse_llm_response(DeltaText(events)).next_actions

\* C9 amended: the hosted backend's actions event carries the next_actions
\* the parser yields on the concatenated delta text; the template backend's
\* carries the fixed list of the template the question selects.
C9_ActionsByBackend ==
    Positions(events, "actions") # {} =>
        IF calls.hosted >= 1
        THEN ActionsSent = parse_llm_response(DeltaText(events)).next_actions
        ELSE LET t == TemplateOf(request.question)
             IN ActionsSent = CASE t = "changes" -> ChangesActions
                                [] t = "medication" -> MedicationActions
                                [] t = "risk" -> RiskActions
                                [] OTHER -> GenericActions

C9_Witness ==
    /\ calls.hosted >= 1
    /\ Positions(events, "actions") # {}
    /\ Count(events, "delta") = 3
    /\ Contains(DeltaText(events), NEXT_ACTIONS_MARKER)
    /\ Len(ActionsSent) = 1

\* the payloads of the source events, in order
RECURSIVE SourcesSent(_)
SourcesSent(evs) ==
    IF evs = <<>> THEN <<>>
    ELSE (IF Head(evs).type = "source" THEN <<Head(evs).data>> ELSE <<>>)
         \o SourcesSent(Tail(evs))

\* the rows retrieval hands on: those of the store, none when retrieval failed
Retrieved == IF RetrievalFailed THEN <<>> ELSE db.rows

\* C10: once a stream has sent its first delta or its done event, it has sent
\* exactly one source event per retrieved row, in the store's order, with the
\* row's values (JSON-text metadata decoded, score as a float).
C10_SourcesAsRetrieved ==
    (request.path = "stream" /\ (Count(events, "delta") >= 1 \/ LastType = "done")) =>
        LET sent == SourcesSent(events)
        IN /\ Len(sent) = Len(Retrieved)
           /\ \A i \in 1..Len(sent) :
                LET r == Retrieved[i]
                IN /\ sent[i].source_type = r.source_type
                   /\ sent[i].source_id = r.source_id
                   /\ sent[i].label = r.label
                   /\ sent[i].snippet = r.snippet
                   /\ sent[i].score = [kind |-> "float", tenths |-> r.score.tenths]
                   /\ sent[i].metadata.text = r.metadata.text
                   /\ sent[i].metadata.kind =
                        IF r.metadata.kind = "str" THEN "dict" ELSE r.metadata.kind

C10_Witness ==
    /\ StreamEnded
    /\ LastType = "done"
    /\ Len(db.rows) = 2
    /\ db.rows[1].score.tenths < db.rows[2].score.tenths
    /\ Count(events, "source") = 2

\* ------------------------------------------------------------------------
\* Classification of the retrieval method
\* ------------------------------------------------------------------------
\* some returned row is a note scoring strictly more than 0.5
HasHighNote(rows) ==
    \E i \in 1..Len(rows) : rows[i].source_type = "note" /\ rows[i].score.tenths > 5

\* C11 as stated: once the query of the context store has succeeded, the
\* tag is "vector" exactly when some returned row is a note scoring more
\* than 0.5 and "keyword" otherwise; it is never "hybrid", and "error"
\* only after a failure.
C11_TagWhenQuerySucceeds ==
    calls.store >= 1 =>
        /\ db.ok => retrieval_method = (IF HasHighNote(db.rows) THEN "vector" ELSE "keyword")
        /\ retrieval_method # "hybrid"
        /\ retrieval_method = "error" => RetrievalFailed

\* C11, amended: once the query has succeeded and every returned row was
\* processed (metadata given as JSON text decodes), the tag is "vector"
\* exactly when some returned row is a note scoring more than 0.5 and
\* "keyword" otherwise; it is never "hybrid"; it is "error" exactly when
\* the query or the processing of a row failed.
C11_TagByScore ==
    calls.store >= 1 =>
        retrieval_method =
            (IF RetrievalFailed THEN "error"
             ELSE IF HasHighNote(db.rows) THEN "vector" ELSE "keyword")

\* the store returned a note scoring exactly 0.5 next to a lab scoring 0.9
C11_Witness ==
    /\ calls.store >= 1
    /\ db.ok
    /\ Len(db.rows) = 2
    /\ \E i \in 1..2 : db.rows[i].source_type = "note" /\ db.rows[i].score.tenths = 5
    /\ \E i \in 1..2 : db.rows[i].source_type = "lab" /\ db.rows[i].score.tenths = 9
    /\ retrieval_method = "keyword"

\* ------------------------------------------------------------------------
\* The response parser applied on its own (llm.py _parse_llm_response)
\* ------------------------------------------------------------------------
\* the pieces raw completion texts are made of
TextTokens ==
    {<<" ">>, <<"\n">>, <<"-">>, <<"(bullet)">>, <<"a">>, ANSWER_MARKER, NEXT_ACTIONS_MARKER}

RawTexts == {Concat(ts) : ts \in SeqsUpTo(TextTokens, MaxTextLen)}

\* answer texts without a marker
AnswerTexts ==
    {<<>>, <<"a">>, <<" ", "a", " ", "b", "\n">>, <<"a", "\n", "-", " ", "b">>}

\* non-empty action strings
ActionStrings ==
    {<<"x">>, <<"y", " ", "z">>, <<"-", "w">>, <<" ", "x">>, <<"x", "\n", "y">>, <<" ">>,
     <<"see">> \o NEXT_ACTIONS_MARKER}

\* longest action list of a built response
MaxActions == 2

ParserInputs ==
    {[kind |-> "raw", text |-> t, answer |-> <<>>, actions |-> <<>>] : t \in RawTexts}
      \cup {[kind |-> "built", text |-> ResponseFormat(A, xs), answer |-> A, actions |-> xs] :
               A \in AnswerTexts, xs \in SeqsUpTo(ActionStrings, MaxActions)}

InitParser ==
    /\ arg \in ParserInputs
    /\ result = NoResult
    /\ clinical_actions = NoStatements
    /\ PipelineIdle
    /\ PoolIdle

\* one call of _parse_llm_response(arg.text)
ParseResponse ==
    /\ arg.kind \in {"raw", "built"}
    /\ result = NoResult
    /\ result' = IF parse_raises(arg.text)
                 THEN [kind |-> "raised", answer |-> <<>>, next_actions |-> <<>>]
                 ELSE [kind |-> "returned",
                       answer |-> parse_llm_response(arg.text).answer,
                       next_actions |-> parse_llm_response(arg.text).next_actions]
    /\ UNCHANGED <<arg, clinical_actions, pipelineVars, poolVars>>

NextParser == ParseResponse

SpecParser == InitParser /\ [][NextParser]_vars

\* sub occurs in s
Occurs(s, sub) ==
    \E i \in 1..Len(s) : i + Len(sub) - 1 <= Len(s) /\ SubSeq(s, i, i + Len(sub) - 1) = sub

\* s from its first to its last symbol that is not whitespace
Trimmed(s) ==
    LET ix == {i \in 1..Len(s) : s[i] \notin {" ", "\n"}}
    IN IF ix = {} THEN <<>>
       ELSE SubSeq(s, CHOOSE i \in ix : \A j \in ix : i <= j,
                      CHOOSE i \in ix : \A j \in ix : j <= i)

\* an action that fills one line: not empty, no whitespace at either end,
\* no line break, no NEXT ACTIONS: marker
LineAction(x) ==
    /\ x # <<>>
    /\ x[1] \notin {" ", "\n"}
    /\ x[Len(x)] \notin {" ", "\n"}
    /\ \A i \in 1..Len(x) : x[i] # "\n"
    /\ ~Occurs(x, <<"NEXT", " ", "ACTIONS:">>)

\* C12 as stated: parsing the text built from a marker-free answer A and
\* any list of non-empty actions gives back A trimmed and the same list of
\* actions in the same order.
C12_RoundTrip ==
    arg.kind = "built" /\ result # NoResult =>
        /\ result.kind = "returned"
        /\ result.answer = Trimmed(arg.answer)
        /\ result.next_actions = arg.actions

\* C12, amended: parsing the text built from a marker-free answer A and a
\* list of actions that each fill one line (non-empty, no surrounding
\* whitespace, no line break, no NEXT ACTIONS: marker) gives back A trimmed
\* and the same list of actions in the same order.
C12_RoundTripOfLineActions ==
    /\ arg.kind = "built"
    /\ result # NoResult
    /\ \A i \in 1..Len(arg.actions) : LineAction(arg.actions[i])
    => /\ result.kind = "returned"
       /\ result.answer = Trimmed(arg.answer)
       /\ result.next_actions = arg.actions

\* two one-line actions after an answer with whitespace around it, parsed
C12_Witness ==
    /\ arg.kind = "built"
    /\ Len(arg.actions) = 2
    /\ arg.actions[1] # arg.actions[2]
    /\ \A i \in 1..2 : LineAction(arg.actions[i])
    /\ arg.answer # Trimmed(arg.answer)
    /\ result # NoResult
    /\ result.next_actions = arg.actions

\* C13: for a text containing neither NEXT ACTIONS: nor ANSWER:, the
\* parser returns the whole text with surrounding whitespace trimmed and
\* the fixed list of three generic actions, in its order.
C13_NoMarkers ==
    /\ result # NoResult
    /\ arg.kind \in {"raw", "built"}
    /\ ~Occurs(arg.text, <<"NEXT", " ", "ACTIONS:">>)
    /\ ~Occurs(arg.text, <<"ANSWER:">>)
    => /\ result.kind = "returned"
       /\ result.answer = Trimmed(arg.text)
       /\ Len(result.next_actions) = 3
       /\ result.next_actions[1] = <<"Review", " ", "full", " ", "clinical", " ", "context">>
       /\ result.next_actions[2] =
              <<"Document", " ", "assessment", " ", "in", " ", "patient", " ", "record">>
       /\ result.next_actions[3] =
              <<"Follow", " ", "up", " ", "as", " ", "clinically", " ", "appropriate">>

\* a marker-free text with whitespace on both sides and a bullet line, parsed
C13_Witness ==
    /\ arg.kind = "raw"
    /\ arg.text = <<" ", "-", "a", "\n">>
    /\ result.kind = "returned"
    /\ result.answer = <<"-", "a">>
    /\ Len(result.next_actions) = 3

\* C14: the parser returns an (answer, next_actions) pair for every text:
\* empty, without markers, with repeated markers, with NEXT ACTIONS:
\* before ANSWER:, with empty sections; it never raises.
C14_ParserIsTotal ==
    arg.kind \in {"raw", "built"} /\ result # NoResult =>
        /\ result.kind = "returned"
        /\ Len(result.answer) >= 0
        /\ \A i \in 1..Len(result.next_actions) : Len(result.next_actions[i]) > 0

\* NEXT ACTIONS: directly followed by ANSWER:, parsed to an empty answer
\* and no actions
C14_Witness ==
    /\ arg.kind = "raw"
    /\ arg.text = <<"NEXT", " ", "ACTIONS:", "ANSWER:">>
    /\ result.kind = "returned"
    /\ result.answer = <<>>
    /\ result.next_actions = <<>>

\* ------------------------------------------------------------------------
\* The prompt builder applied on its own (llm.py _build_context_and_prompt)
\* ------------------------------------------------------------------------
\* the sources a request can carry: the store's rows that pass conversion,
\* a row of another type whose snippet has two paragraphs, and two more notes
SourcePool ==
    {CopilotSource(ProcessRow(r)) : r \in {q \in Rows : ~RowFails(q) /\ ValidSource(ProcessRow(q))}}
      \cup {CopilotSource(ProcessRow(
               Row("unknown", 7, <<"Vitals">>, <<"BP", " ", "130/80", "\n", "\n", "HR", " ", "72">>,
                   Score("float", 4), MetaNone))),
            CopilotSource(ProcessRow(
               Row("note", 8, <<"Discharge">>, <<"home">>, Score("float", 8), MetaNone))),
            CopilotSource(ProcessRow(
               Row("note", 9, <<"Followup">>, <<"BP", " ", "130/80">>,
                   Score("float", 6), MetaNone)))}

SourceLists == SeqsUpTo(SourcePool, MaxSources)

InitPrompt ==
    /\ arg \in {[kind |-> "prompt", question |-> q, patient_name |-> PatientName,
                 sources |-> ss] : q \in Questions, ss \in SourceLists}
    /\ result = NoResult
    /\ clinical_actions = NoStatements
    /\ PipelineIdle
    /\ PoolIdle

\* one call of _build_context_and_prompt
BuildPrompt ==
    /\ arg.kind = "prompt"
    /\ result = NoResult
    /\ LET r == build_context_and_prompt(arg.question, arg.patient_name, arg.sources)
       IN result' = [kind |-> "prompt", context |-> r.context, user_input |-> r.user_input]
    /\ UNCHANGED <<arg, clinical_actions, pipelineVars, poolVars>>

NextPrompt == BuildPrompt

SpecPrompt == InitPrompt /\ [][NextPrompt]_vars

\* the source type in capitals
TypeName(t) ==
    CASE t = "note" -> "NOTE" [] t = "lab" -> "LAB" [] t = "med" -> "MED"
      [] t = "unknown" -> "UNKNOWN"

\* the block expected for the source at position n: header, label, snippet
ExpectedBlock(n, src) ==
    <<"[Source", " ", ToString(n), " ", "-", " ", TypeName(src.source_type), "]", " ">>
        \o src.label \o <<":", "\n">> \o src.snippet

\* where the block of the source at position n starts, blocks being
\* separated by a blank line
RECURSIVE BlockStart(_, _)
BlockStart(n, srcs) ==
    IF n = 1 THEN 1
    ELSE BlockStart(n - 1, srcs) + Len(ExpectedBlock(n - 1, srcs[n - 1])) + 2

\* C15: the context block is the placeholder "No relevant context found."
\* for an empty source list, never the empty string; otherwise it has
\* exactly one "[Source N - TYPE]" header per source, N the 1-based
\* position and TYPE the source type in capitals, in list order, each
\* followed by the label and the snippet of that source, the blocks
\* being separated by a blank line.
C15_ContextBlock ==
    arg.kind = "prompt" /\ result # NoResult =>
        LET ctx == result.context
            srcs == arg.sources
            n == Len(srcs)
        IN /\ ctx # <<>>
           /\ n = 0 => ctx = <<"No", " ", "relevant", " ", "context", " ", "found.">>
           /\ n > 0 =>
                /\ Cardinality({i \in 1..Len(ctx) : ctx[i] = "[Source"}) = n
                /\ \A k \in 1..n :
                     LET b == ExpectedBlock(k, srcs[k])
                         lo == BlockStart(k, srcs)
                         hi == lo + Len(b) - 1
                     IN /\ hi <= Len(ctx)
                        /\ SubSeq(ctx, lo, hi) = b
                        /\ IF k = n THEN hi = Len(ctx)
                           ELSE hi + 2 <= Len(ctx) /\ SubSeq(ctx, hi + 1, hi + 2) = <<"\n", "\n">>

\* a context built from three sources of three types
C15_Witness ==
    /\ arg.kind = "prompt"
    /\ Len(arg.sources) = 3
    /\ arg.sources[1].source_type = "med"
    /\ arg.sources[2].source_type = "note"
    /\ arg.sources[3].source_type = "lab"
    /\ result # NoResult
    /\ Occurs(result.context, <<"[Source", " ", "3", " ", "-", " ", "LAB", "]">>)

\* the placeholder built from no source
C15_WitnessEmpty ==
    /\ arg.kind = "prompt"
    /\ arg.sources = <<>>
    /\ result # NoResult
    /\ result.context = <<"No", " ", "relevant", " ", "context", " ", "found.">>

\* ------------------------------------------------------------------------
\* The template backend applied on its own (llm.py _generate_template_response)
\* ------------------------------------------------------------------------
TemplateQuestions ==
    { <<"What", " ", "changed", " ", "in", " ", "the", " ", "last", " ", "90", " ", "days">>,
      <<"What", " ", "Changed", " ", "since", " ", "spring">>,
      <<"Last", " ", "90", " ", "Days">>,
      <<"Recent", " ", "dose", " ", "change">>,
      <<"last", " ", "90", " ", "weeks">>,
      <<"Dose", " ", "and", " ", "risk">>,
      <<"any", " ", "Action", " ", "needed">>,
      <<"summary", " ", "please">> }

PatientNames == {PatientName, <<"Bo">>}

InitTemplate ==
    /\ arg \in {[kind |-> "template", question |-> q, patient_name |-> n, sources |-> ss] :
                   q \in TemplateQuestions, n \in PatientNames, ss \in SourceLists}
    /\ result = NoResult
    /\ clinical_actions = NoStatements
    /\ PipelineIdle
    /\ PoolIdle

\* one call of _generate_template_response
GenerateTemplate ==
    /\ arg.kind = "template"
    /\ result = NoResult
    /\ LET r == generate_template_response(arg.question, arg.patient_name, arg.sources)
       IN result' = [kind |-> "template", answer |-> r.answer,
                     next_actions |-> r.next_actions, model |-> r.model]
    /\ UNCHANGED <<arg, clinical_actions, pipelineVars, poolVars>>

NextTemplate == GenerateTemplate

SpecTemplate == InitTemplate /\ [][NextTemplate]_vars

\* the question has one of the given words, in lower case or capitalised
Mentions(q, words) == \E i \in 1..Len(q) : q[i] \in words

\* the question contains "last 90 days", "changed" or "recent", in any case
AsksForChanges(q) ==
    \/ Mentions(q, {"changed", "Changed", "recent", "Recent"})
    \/ \E i \in 1..Len(q) :
         /\ i + 4 <= Len(q)
         /\ q[i] \in {"last", "Last"}
         /\ q[i + 1] = " " /\ q[i + 2] = "90" /\ q[i + 3] = " "
         /\ q[i + 4] \in {"days", "Days"}

HasType(srcs, t) == \E i \in 1..Len(srcs) : srcs[i].source_type = t

\* C16: a question containing "last 90 days", "changed" or "recent" in any
\* case gets the changes template: the answer has the header Medication
\* Changes exactly when a med source is present, the header Lab Results
\* exactly when a lab source is present, the line "Limited information
\* available in the retrieved context." exactly when there is no med, lab
\* or note source, and next_actions is the three fixed changes actions.
C16_ChangesTemplate ==
    arg.kind = "template" /\ result # NoResult /\ AsksForChanges(arg.question) =>
        /\ Occurs(result.answer, <<"Medication", " ", "Changes">>) <=> HasType(arg.sources, "med")
        /\ Occurs(result.answer, <<"Lab", " ", "Results">>) <=> HasType(arg.sources, "lab")
        /\ Occurs(result.answer, <<"Limited", " ", "information", " ", "available", " ", "in",
                                   " ", "the", " ", "retrieved", " ", "context.">>)
             <=> ~(HasType(arg.sources, "med") \/ HasType(arg.sources, "lab")
                     \/ HasType(arg.sources, "note"))
        /\ result.next_actions =
             << <<"Review", " ", "medication", " ", "changes", " ", "with", " ", "patient">>,
                <<"Confirm", " ", "lab", " ", "trends", " ", "are", " ", "in", " ", "expected",
                  " ", "direction">>,
                <<"Schedule", " ", "follow-up", " ", "to", " ", "assess", " ", "treatment",
                  " ", "response">> >>

\* "What changed in the last 90 days" answered from one med and one lab source
C16_Witness ==
    /\ arg.kind = "template"
    /\ AsksForChanges(arg.question)
    /\ Len(arg.sources) = 2
    /\ HasType(arg.sources, "med") /\ HasType(arg.sources, "lab")
    /\ result # NoResult
    /\ Occurs(result.answer, <<"Medication", " ", "Changes">>)
    /\ Occurs(result.answer, <<"Lab", " ", "Results">>)
    /\ Len(result.next_actions) = 3

\* the template a question selects, read off the question
TemplateAsked(q) ==
    IF AsksForChanges(q) THEN "changes"
    ELSE IF Mentions(q, {"lisinopril", "Lisinopril", "dose", "Dose"}) THEN "medication"
    ELSE IF Mentions(q, {"risk", "Risk", "action", "Action"}) THEN "risk"
    ELSE "generic"

\* C17: next_actions of the template backend is the constant list of three
\* strings of the selected template, whatever the patient name and the
\* sources (none included), and the model identifier is null.
C17_ActionsByTemplateOnly ==
    arg.kind = "template" /\ result # NoResult =>
        /\ Len(result.next_actions) = 3
        /\ result.next_actions =
             (CASE TemplateAsked(arg.question) = "changes" -> ChangesActions
                [] TemplateAsked(arg.question) = "medication" -> MedicationActions
                [] TemplateAsked(arg.question) = "risk" -> RiskActions
                [] OTHER -> GenericActions)
        /\ result.model = NoneVal

\* the risk template answering for another patient from no source at all
C17_Witness ==
    /\ arg.kind = "template"
    /\ TemplateAsked(arg.question) = "risk"
    /\ arg.patient_name = <<"Bo">>
    /\ arg.sources = <<>>
    /\ result # NoResult
    /\ result.next_actions = RiskActions
    /\ result.model = NoneVal

\* ------------------------------------------------------------------------
\* Requests for a patient that does not exist
\* ------------------------------------------------------------------------
\* C18: on both copilot endpoints a request naming a patient that does not
\* exist is answered 404 before any pipeline work: the context store is
\* not queried, no answer generator is invoked, and on the streaming
\* endpoint no stream is opened and no event is emitted.
C18_UnknownPatientRejectedFirst ==
    request.patient = "missing" =>
        /\ response.status = 404
        /\ pc = "closed"
        /\ calls.store = 0 /\ calls.hosted = 0 /\ calls.api = 0 /\ calls.template = 0
        /\ events = <<>>

\* a streaming request for an unknown patient, answered 404
C18_Witness ==
    /\ request.path = "stream"
    /\ request.patient = "missing"
    /\ response.status = 404
    /\ events = <<>>

\* a non-streaming request for an unknown patient, answered 404
C18_WitnessAsk ==
    /\ request.path = "ask"
    /\ request.patient = "missing"
    /\ response.status = 404
    /\ calls.store = 0

\* ------------------------------------------------------------------------
\* GET /patients/{id}/notes/{note_id} (patients.py get_note)
\* ------------------------------------------------------------------------
\* phi_entities as the database returns it: NULL, a decoded list, or JSON
\* text encoding a list ("arr"), an object ("obj") or nothing valid ("bad")
PhiNone == [kind |-> "none", text |-> ""]

PhiList == [kind |-> "list", text |-> "arr"]

PhiText(t) == [kind |-> "str", text |-> t]

NoNote == [found |-> FALSE, raw_text |-> NoneVal, redacted_text |-> NoneVal,
           phi_entities |-> PhiNone, note_type |-> NoneVal]

\* the joined rows of notes_phi and notes_raw the lookup can return
Notes ==
    [found : {TRUE},
     raw_text : {"Seen by Dr. Ann Lee, MRN 4471", "Call Bo at 555-0100"},
     redacted_text : {"Seen by Dr. [NAME], MRN [MRN]", "Call [NAME] at [PHONE]"},
     phi_entities : {PhiNone, PhiList, PhiText("arr"), PhiText("obj"), PhiText("bad")},
     note_type : {"progress", NoneVal}]

\* NoteDetail validation: phi_entities is Optional[list[dict]]
ValidNoteDetail(phi) == phi.kind \in {"none", "list"}

NoteResponse(status, raw_text, redacted_text, phi_entities, note_type) ==
    [kind |-> "note", status |-> status, raw_text |-> raw_text,
     redacted_text |-> redacted_text, phi_entities |-> phi_entities,
     note_type |-> note_type]

NoteError(status) == NoteResponse(status, NoneVal, NoneVal, PhiNone, NoneVal)

\* the raw text is returned whenever the request asks for it
get_note_raw_on_request(demo_allow_raw, include_raw, note) ==
    IF ~note.found THEN NoteError(404)
    ELSE IF note.phi_entities.kind = "str" /\ ~json_loads(note.phi_entities).ok
    THEN NoteError(500)
    ELSE LET raw_text == IF include_raw THEN note.raw_text ELSE NoneVal
             phi_entities == IF note.phi_entities.kind = "str"
                             THEN json_loads(note.phi_entities).val
                             ELSE note.phi_entities
             phi_out == IF demo_allow_raw THEN phi_entities ELSE PhiNone
         IN IF ~ValidNoteDetail(phi_out) THEN NoteError(500)
            ELSE NoteResponse(200, raw_text, note.redacted_text, phi_out, note.note_type)

get_note(demo_allow_raw, include_raw, note) ==
    IF ~note.found THEN NoteError(404)
    ELSE IF note.phi_entities.kind = "str" /\ ~json_loads(note.phi_entities).ok
    THEN NoteError(500)
    ELSE LET raw_text == IF demo_allow_raw /\ include_raw THEN note.raw_text ELSE NoneVal
             phi_entities == IF note.phi_entities.kind = "str"
                             THEN json_loads(note.phi_entities).val
                             ELSE note.phi_entities
             phi_out == IF demo_allow_raw THEN phi_entities ELSE PhiNone
         IN IF ~ValidNoteDetail(phi_out) THEN NoteError(500)
            ELSE NoteResponse(200, raw_text, note.redacted_text, phi_out, note.note_type)

InitNote ==
    /\ arg \in [kind : {"note"}, demo_allow_raw : BOOLEAN, include_raw : BOOLEAN,
                note : Notes \cup {NoNote}]
    /\ result = NoResult
    /\ clinical_actions = NoStatements
    /\ PipelineIdle
    /\ PoolIdle

\* one request served by get_note
GetNote ==
    /\ arg.kind = "note"
    /\ result = NoResult
    /\ result' = get_note(arg.demo_allow_raw, arg.include_raw, arg.note)
    /\ UNCHANGED <<arg, clinical_actions, pipelineVars, poolVars>>

NextNote == GetNote

SpecNote == InitNote /\ [][NextNote]_vars

\* C19: whenever get_note returns a note, raw_text is the note's raw text
\* if DEMO_ALLOW_RAW is true and the request set include_raw, and null in
\* every other combination; the PHI entity list is returned only when
\* DEMO_ALLOW_RAW is true, whatever include_raw is; the redacted text is
\* returned in every combination, and a note whose entity list is null,
\* a list or the JSON text of a list is returned in every combination.
C19_RawTextIsGated ==
    arg.kind = "note" /\ result # NoResult =>
        /\ result.status = 200 =>
             /\ arg.note.found
             /\ result.raw_text = (IF arg.demo_allow_raw /\ arg.include_raw
                                   THEN arg.note.raw_text ELSE "<None>")
             /\ result.phi_entities.kind # "none" => arg.demo_allow_raw
             /\ arg.demo_allow_raw /\ arg.note.phi_entities.kind # "none"
                  => result.phi_entities.kind = "list"
             /\ result.redacted_text = arg.note.redacted_text
        /\ arg.note.found /\ (arg.note.phi_entities.kind = "str"
                                => arg.note.phi_entities.text = "arr")
             => result.status = 200
        /\ ~arg.note.found => result.status = 404

\* raw text asked for while DEMO_ALLOW_RAW is off: the note comes back
\* with its redacted text only
C19_Witness ==
    /\ arg.kind = "note"
    /\ ~arg.demo_allow_raw
    /\ arg.include_raw
    /\ arg.note.found
    /\ arg.note.phi_entities = PhiList
    /\ result # NoResult
    /\ result.status = 200
    /\ result.raw_text = "<None>"
    /\ result.phi_entities.kind = "none"
    /\ result.redacted_text = arg.note.redacted_text

\* raw text asked for while DEMO_ALLOW_RAW is on: the raw text comes back
C19_WitnessAllowed ==
    /\ arg.kind = "note"
    /\ arg.demo_allow_raw
    /\ arg.include_raw
    /\ result # NoResult
    /\ result.status = 200
    /\ result.raw_text = arg.note.raw_text
    /\ result.phi_entities.kind = "list"

\* ------------------------------------------------------------------------
\* The connection pool (db.py)
\* ------------------------------------------------------------------------
\* the pool sizes a deployment can set
PoolSettings == [db_pool_min_size : {0, 1, 2}, db_pool_max_size : {0, 1, 10}]

NoConn == 0

InitPool ==
    /\ pool_cfg \in PoolSettings
    /\ app = "starting"
    /\ pool = <<>>
    /\ pool_size = 5
    /\ pool_lock = 0
    /\ rpc = [r \in Requests |-> "idle"]
    /\ conn = [r \in Requests |-> NoConn]
    /\ created = 0
    /\ closed = {}
    /\ FnIdle
    /\ PipelineIdle

\* lifespan startup: _pool_size is set and the initial connections are
\* opened; k of them succeed before the first failure, if any
init_db_pool ==
    /\ app = "starting"
    /\ pool_size' = pool_cfg.db_pool_max_size
    /\ \E k \in 0..pool_cfg.db_pool_min_size, test_ok \in BOOLEAN :
         /\ created + k <= MaxConnections
         /\ created' = created + k
         /\ pool' = pool \o [i \in 1..k |-> created + i]
         /\ app' = IF k = pool_cfg.db_pool_min_size
                   THEN (IF k = 0 \/ test_ok THEN "running" ELSE "failed")
                   ELSE (IF k = 0 THEN "running" ELSE "failed")
    /\ UNCHANGED <<pool_cfg, pool_lock, rpc, conn, closed, fnVars, pipelineVars>>

\* get_connection up to its first await that suspends: the lock is taken;
\* an idle connection is popped, or one is about to be opened under the
\* lock, or the lock is left without a connection
Acquire(r) ==
    /\ app = "running"
    /\ rpc[r] = "idle"
    /\ pool_lock = 0
    /\ IF pool # <<>>
       THEN /\ conn' = [conn EXCEPT ![r] = pool[Len(pool)]]
            /\ pool' = SubSeq(pool, 1, Len(pool) - 1)
            /\ rpc' = [rpc EXCEPT ![r] = "using"]
            /\ UNCHANGED pool_lock
       ELSE IF Len(pool) < pool_size
       THEN /\ pool_lock' = r
            /\ rpc' = [rpc EXCEPT ![r] = "creating"]
            /\ UNCHANGED <<pool, conn>>
       ELSE /\ rpc' = [rpc EXCEPT ![r] = "sleeping"]
            /\ UNCHANGED <<pool, conn, pool_lock>>
    /\ UNCHANGED <<pool_cfg, app, pool_size, created, closed, fnVars, pipelineVars>>

\* the connection opened under the lock is ready: it is yielded
Created(r) ==
    /\ rpc[r] = "creating"
    /\ pool_lock = r
    /\ created < MaxConnections
    /\ created' = created + 1
    /\ conn' = [conn EXCEPT ![r] = created + 1]
    /\ rpc' = [rpc EXCEPT ![r] = "using"]
    /\ pool_lock' = 0
    /\ UNCHANGED <<pool_cfg, app, pool, pool_size, closed, fnVars, pipelineVars>>

\* opening the connection raised: get_connection raises, the lock is left
CreateFailed(r) ==
    /\ rpc[r] = "creating"
    /\ pool_lock = r
    /\ rpc' = [rpc EXCEPT ![r] = "idle"]
    /\ pool_lock' = 0
    /\ UNCHANGED <<pool_cfg, app, pool, pool_size, conn, created, closed, fnVars,
                   pipelineVars>>

\* after the sleep: the lock is taken again; an idle connection is popped
\* or one is opened whatever the pool size
Retry(r) ==
    /\ rpc[r] = "sleeping"
    /\ pool_lock = 0
    /\ IF pool # <<>>
       THEN /\ conn' = [conn EXCEPT ![r] = pool[Len(pool)]]
            /\ pool' = SubSeq(pool, 1, Len(pool) - 1)
            /\ rpc' = [rpc EXCEPT ![r] = "using"]
            /\ UNCHANGED pool_lock
       ELSE /\ pool_lock' = r
            /\ rpc' = [rpc EXCEPT ![r] = "creating"]
            /\ UNCHANGED <<pool, conn>>
    /\ UNCHANGED <<pool_cfg, app, pool_size, created, closed, fnVars, pipelineVars>>

\* the connection is returned without leaving the holder's hands
ReleaseKeepsHold(r) ==
    /\ rpc[r] = "using"
    /\ pool_lock = 0
    /\ pool' = Append(pool, conn[r])
    /\ rpc' = [rpc EXCEPT ![r] = "idle"]
    /\ UNCHANGED <<pool_cfg, app, pool_size, pool_lock, conn, created, closed, fnVars,
                   pipelineVars>>

\* the finally block: the lock is taken; the connection goes back to the
\* pool, or is about to be closed under the lock when the pool is full
Release(r) ==
    /\ rpc[r] = "using"
    /\ pool_lock = 0
    /\ IF Len(pool) < pool_size
       THEN /\ pool' = Append(pool, conn[r])
            /\ conn' = [conn EXCEPT ![r] = NoConn]
            /\ rpc' = [rpc EXCEPT ![r] = "idle"]
            /\ UNCHANGED pool_lock
       ELSE /\ pool_lock' = r
            /\ rpc' = [rpc EXCEPT ![r] = "closing"]
            /\ UNCHANGED <<pool, conn>>
    /\ UNCHANGED <<pool_cfg, app, pool_size, created, closed, fnVars, pipelineVars>>

\* conn.close returned: the lock is left
Closed(r) ==
    /\ rpc[r] = "closing"
    /\ pool_lock = r
    /\ closed' = closed \cup {conn[r]}
    /\ conn' = [conn EXCEPT ![r] = NoConn]
    /\ rpc' = [rpc EXCEPT ![r] = "idle"]
    /\ pool_lock' = 0
    /\ UNCHANGED <<pool_cfg, app, pool, pool_size, created, fnVars, pipelineVars>>

\* lifespan shutdown, once the requests in flight are over: every idle
\* connection is closed and the pool emptied
close_db_pool ==
    /\ app = "running"
    /\ \A r \in Requests : rpc[r] = "idle"
    /\ closed' = closed \cup {pool[i] : i \in 1..Len(pool)}
    /\ pool' = <<>>
    /\ app' = "stopped"
    /\ UNCHANGED <<pool_cfg, pool_size, pool_lock, rpc, conn, created, fnVars, pipelineVars>>

NextPool ==
    \/ init_db_pool
    \/ close_db_pool
    \/ \E r \in Requests : Acquire(r)
    \/ \E r \in Requests : Created(r)
    \/ \E r \in Requests : CreateFailed(r)
    \/ \E r \in Requests : Retry(r)
    \/ \E r \in Requests : Release(r)
    \/ \E r \in Requests : Closed(r)

SpecPool == InitPool /\ [][NextPool]_vars

\* C20: under every interleaving of requests acquiring and releasing
\* connections through get_connection, no connection is held by two
\* requests at once, and no connection is at once checked out and in the
\* idle pool.
C20_ConnectionsNotShared ==
    /\ \A r1, r2 \in 1..NumRequests :
         r1 # r2 /\ conn[r1] # 0 => conn[r1] # conn[r2]
    /\ \A r \in 1..NumRequests :
         conn[r] # 0 => \A i \in 1..Len(pool) : pool[i] # conn[r]

\* two requests using two connections at once, one of them used before
C20_Witness ==
    /\ rpc[1] = "using"
    /\ rpc[2] = "using"
    /\ conn[1] # 0 /\ conn[2] # 0
    /\ conn[1] # conn[2]
    /\ created = 2

\* ------------------------------------------------------------------------
\* Client disconnects
\* ------------------------------------------------------------------------
\* C21: once the client has disconnected from a stream in progress, no
\* further event is emitted on that stream, the answer generator is not
\* called again (no further model fragment is consumed, no further word
\* group is produced), and no database connection is held.
C21_DisconnectStopsStream ==
    /\ [](cancelled => ~held)
    /\ [][cancelled /\ cancelled' =>
            /\ events' = events
            /\ consumed' = consumed
            /\ wordIdx' = wordIdx
            /\ calls' = calls]_vars

\* the client went away while the query of the context store was running,
\* and the connection was given back
C21_DisconnectWhileRetrieving ==
    /\ cancelled
    /\ pc = "closed"
    /\ calls.store = 0
    /\ events = <<>>
    /\ ~held

\* ------------------------------------------------------------------------
\* What the parser keeps of the answer and of the action lines
\* ------------------------------------------------------------------------
\* the first position at which sub occurs in s, 0 if none
FirstOccurrence(s, sub) ==
    LET at == {i \in 1..Len(s) : i + Len(sub) - 1 <= Len(s)
                                   /\ SubSeq(s, i, i + Len(sub) - 1) = sub}
    IN IF at = {} THEN 0 ELSE CHOOSE i \in at : \A j \in at : i <= j

\* the answer section: the text before the first NEXT ACTIONS:, else all
AnswerSection(text) ==
    LET i == FirstOccurrence(text, <<"NEXT", " ", "ACTIONS:">>)
    IN IF i = 0 THEN text ELSE SubSeq(text, 1, i - 1)

\* s trimmed, without an ANSWER: marker at its start, trimmed
WithoutLeadingAnswer(s) ==
    LET t == Trimmed(s)
    IN IF t # <<>> /\ t[1] = "ANSWER:" THEN Trimmed(SubSeq(t, 2, Len(t))) ELSE t

\* C22: the parser removes only a leading ANSWER: marker: the answer is
\* the whole answer section (the text before NEXT ACTIONS:, or the entire
\* input when that marker is absent) minus a leading ANSWER: marker,
\* trimmed, for every input, also when ANSWER: is preceded by other text
\* or occurs more than once.
C22_OnlyLeadingMarkerRemoved ==
    arg.kind \in {"raw", "built"} /\ result # NoResult =>
        /\ result.kind = "returned"
        /\ result.answer = WithoutLeadingAnswer(AnswerSection(arg.text))

\* a text with ANSWER: at its start only, parsed
C22_LeadingMarkerCase ==
    /\ arg.kind = "raw"
    /\ arg.text = <<"ANSWER:", " ", "a">>
    /\ result.kind = "returned"
    /\ result.answer = <<"a">>

\* the lines of s
RECURSIVE LinesOf(_)
LinesOf(s) ==
    LET breaks == {i \in 1..Len(s) : s[i] = "\n"}
        b == IF breaks = {} THEN 0 ELSE CHOOSE i \in breaks : \A j \in breaks : i <= j
    IN IF b = 0 THEN <<s>>
       ELSE <<SubSeq(s, 1, b - 1)>> \o LinesOf(SubSeq(s, b + 1, Len(s)))

\* s without the bullet characters at its start
RECURSIVE Unbulleted(_)
Unbulleted(s) ==
    IF s # <<>> /\ s[1] \in {"-", "(bullet)"} THEN Unbulleted(SubSeq(s, 2, Len(s))) ELSE s

\* the items of the bullet lines among the given lines, in order
RECURSIVE BulletItems(_)
BulletItems(lines) ==
    IF lines = <<>> THEN <<>>
    ELSE LET line == Trimmed(lines[1])
             item == Trimmed(Unbulleted(line))
         IN (IF line # <<>> /\ line[1] \in {"-", "(bullet)"} /\ item # <<>>
             THEN <<item>> ELSE <<>>) \o BulletItems(SubSeq(lines, 2, Len(lines)))

\* all text after the first NEXT ACTIONS:
AfterFirstMarker(text) ==
    SubSeq(text, FirstOccurrence(text, <<"NEXT", " ", "ACTIONS:">>) + 3, Len(text))

\* C23: when the text has NEXT ACTIONS:, next_actions is the ordered list
\* made from all text after the first occurrence of the marker: each line
\* that, trimmed, begins with - or the bullet gives one item, bullet
\* characters stripped and trimmed, empty items dropped; other lines give
\* nothing, duplicates stay, and without any such line the list is empty.
C23_ActionsFromAllTextAfterMarker ==
    /\ arg.kind \in {"raw", "built"}
    /\ result # NoResult
    /\ Occurs(arg.text, <<"NEXT", " ", "ACTIONS:">>)
    => /\ result.kind = "returned"
       /\ result.next_actions = BulletItems(LinesOf(AfterFirstMarker(arg.text)))

\* C23 for texts with one NEXT ACTIONS: marker
C23_ActionsAfterSingleMarker ==
    /\ arg.kind \in {"raw", "built"}
    /\ result # NoResult
    /\ Cardinality({i \in 1..Len(arg.text) : arg.text[i] = "ACTIONS:"}) = 1
    /\ Occurs(arg.text, <<"NEXT", " ", "ACTIONS:">>)
    => /\ result.kind = "returned"
       /\ result.next_actions = BulletItems(LinesOf(AfterFirstMarker(arg.text)))

\* ------------------------------------------------------------------------
\* Forwarding of the model's fragments
\* ------------------------------------------------------------------------
\* the fragments among the model events consumed, in order
RECURSIVE FragmentsOf(_)
FragmentsOf(ms) ==
    IF ms = <<>> THEN <<>>
    ELSE (IF ms[1].type = "response.output_text.delta" THEN <<ms[1].delta>> ELSE <<>>)
         \o FragmentsOf(SubSeq(ms, 2, Len(ms)))

\* the texts of the delta events emitted, in order
RECURSIVE DeltaTexts(_)
DeltaTexts(evs) ==
    IF evs = <<>> THEN <<>>
    ELSE (IF evs[1].type = "delta" THEN <<evs[1].data.text>> ELSE <<>>)
         \o DeltaTexts(SubSeq(evs, 2, Len(evs)))

\* the hosted model is streaming, or has streamed, to a client still there
HostedStreaming ==
    /\ request.path = "stream"
    /\ hosted.kind \in {"streaming", "ok", "stream_error"}
    /\ ~cancelled

\* C24: in hosted streaming every text fragment received from the model
\* is forwarded as one delta event carrying it unchanged, in arrival
\* order, in the step that consumes it; model events of other types give
\* no stream event; the accumulated text is the concatenation, in order,
\* of the forwarded fragments.
C24_FragmentsForwardedAsReceived ==
    /\ [](HostedStreaming =>
            /\ DeltaTexts(events) = FragmentsOf(hosted.text)
            /\ full_text = Concat(DeltaTexts(events)))
    /\ [][HostedStreaming' /\ consumed' = consumed + 1 =>
            LET event == hosted'.text[Len(hosted'.text)]
            IN IF event.type = "response.output_text.delta"
               THEN events' = Append(events, [type |-> "delta", data |-> [text |-> event.delta]])
               ELSE events' = events]_vars

\* two fragments forwarded, a model event of another type consumed between
C24_Witness ==
    /\ HostedStreaming
    /\ Len(hosted.text) = 3
    /\ hosted.text[1].type = "response.output_text.delta"
    /\ hosted.text[2].type = "response.created"
    /\ hosted.text[3].type = "response.output_text.delta"
    /\ Len(DeltaTexts(events)) = 2
    /\ DeltaTexts(events)[1] # Strip(DeltaTexts(events)[1])

\* ------------------------------------------------------------------------
\* Word groups of the template backend
\* ------------------------------------------------------------------------
\* the words of s: its maximal runs of symbols that are not whitespace
RECURSIVE WordsIn(_)
WordsIn(s) ==
    LET ink == {i \in 1..Len(s) : s[i] \notin {" ", "\n"}}
        b == IF ink = {} THEN 0 ELSE CHOOSE i \in ink : \A j \in ink : i <= j
        gaps == {i \in (b + 1)..Len(s) : s[i] \in {" ", "\n"}}
        e == IF gaps = {} THEN Len(s) + 1 ELSE CHOOSE i \in gaps : \A j \in gaps : i <= j
    IN IF b = 0 THEN <<>>
       ELSE <<SubSeq(s, b, e - 1)>> \o WordsIn(SubSeq(s, e, Len(s)))

\* the stream is answered by the template backend
TemplateStreaming == request.path = "stream" /\ calls.template >= 1

\* C25: in template pseudo-streaming of an answer of W words, the k-th
\* delta carries the words 3k-2 .. 3k of the answer (fewer in the last
\* one), so that the deltas in order carry the words of the answer in
\* order, none lost, repeated or moved; when the actions event is sent,
\* exactly ceil(W/3) deltas were emitted, and at least one.
C25_WordGroups ==
    TemplateStreaming =>
        LET ws == WordsIn(template.answer)
            D == DeltaTexts(events)
            groups == (Len(ws) + 2) \div 3
        IN /\ Len(D) <= groups
           /\ \A k \in 1..Len(D) :
                /\ WordsIn(D[k]) =
                     SubSeq(ws, 3 * k - 2, IF 3 * k > Len(ws) THEN Len(ws) ELSE 3 * k)
                /\ k < groups => Len(WordsIn(D[k])) = 3
                /\ Len(WordsIn(D[k])) \in 1..3
           /\ Positions(events, "actions") # {} => Len(D) = groups /\ Len(D) >= 1

\* a template answer streamed to its end whose last group is not full
C25_Witness ==
    /\ TemplateStreaming
    /\ pc = "closed"
    /\ ~cancelled
    /\ Positions(events, "done") # {}
    /\ Len(DeltaTexts(events)) >= 2
    /\ Len(WordsIn(DeltaTexts(events)[Len(DeltaTexts(events))])) < 3

\* ------------------------------------------------------------------------
\* Sources listed by the templates
\* ------------------------------------------------------------------------
\* the entries of the answer that are marked with the source type t:
\* "[NOTE" of the risk and generic templates, "[Source: note]" of the
\* changes template
Marked(answer, t) ==
    Cardinality({i \in 1..Len(answer) - 1 : answer[i] = "[" /\ answer[i + 1] = TypeName(t)})
      + Cardinality({i \in 1..Len(answer) - 2 : answer[i] = "[Source:" /\ answer[i + 2] = t})

\* the list lines of the answer: the lines that start with "- "
DashLines(answer) ==
    Cardinality({i \in 1..Len(answer) - 1 :
                   /\ answer[i] = "-" /\ answer[i + 1] = " "
                   /\ (i = 1 \/ answer[i - 1] = "\n")})

\* the number of sources of type t the answer to question q lists; the
\* medication template lists labs or meds without a mark, one a line
Listed(q, answer, t) ==
    IF TemplateAsked(q) = "medication"
    THEN (IF t \in {"med", "lab"} THEN DashLines(answer) ELSE 0)
    ELSE Marked(answer, t)

\* C26: no template answer lists more than 3 sources of any one category
\* (note, lab, med), whatever the number of sources supplied.
C26_ThreePerCategory ==
    arg.kind = "template" /\ result # NoResult =>
        \A t \in {"note", "lab", "med"} : Listed(arg.question, result.answer, t) <= 3

\* the changes, medication and risk templates list at most 3 sources of a
\* category; the generic template lists the first 5 sources of any category
C26_ThreeButGeneric ==
    arg.kind = "template" /\ result # NoResult =>
        \A t \in {"note", "lab", "med"} :
            Listed(arg.question, result.answer, t)
              <= (IF TemplateAsked(arg.question) = "generic" THEN 5 ELSE 3)

\* the generic template answering from four notes lists all four
C26_GenericListsFour ==
    /\ arg.kind = "template"
    /\ result # NoResult
    /\ TemplateAsked(arg.question) = "generic"
    /\ Len(OfType(arg.sources, "note")) = 4
    /\ Listed(arg.question, result.answer, "note") = 4

\* ------------------------------------------------------------------------
\* Template classification
\* ------------------------------------------------------------------------
\* the templates whose opening words and fixed actions the result shows
TemplatesShown(r) ==
    LET based == StartsWith(r.answer, Phrase(<<"Based", "on", "the", "available",
                                               "records", "for">>))
        changes == Occurs(r.answer, Phrase(<<"here", "are", "the", "key", "changes:">>))
    IN {t \in {"changes", "medication", "risk", "generic"} :
          \/ t = "changes" /\ based /\ changes /\ r.next_actions = ChangesActions
          \/ t = "medication"
               /\ StartsWith(r.answer, Phrase(<<"Regarding", "medication", "management", "for">>))
               /\ r.next_actions = MedicationActions
          \/ t = "risk" /\ StartsWith(r.answer, Phrase(<<"Risk", "assessment", "for">>))
               /\ r.next_actions = RiskActions
          \/ t = "generic" /\ based /\ ~changes /\ r.next_actions = GenericActions}

\* the templates one of whose triggers the question contains, in any case
Triggered(q) ==
    {t \in {"changes", "medication", "risk"} :
       \/ t = "changes" /\ AsksForChanges(q)
       \/ t = "medication" /\ Mentions(q, {"lisinopril", "Lisinopril", "dose", "Dose"})
       \/ t = "risk" /\ Mentions(q, {"risk", "Risk", "action", "Action"})}

\* C27: every question gets exactly one of the four templates: the first
\* of changes, medication, risk one of whose triggers it contains in any
\* case, the generic one when it contains none; the source list and the
\* patient name have no part in the choice.
C27_FirstMatchingTemplate ==
    arg.kind = "template" /\ result # NoResult =>
        TemplatesShown(result) =
          { IF "changes" \in Triggered(arg.question) THEN "changes"
            ELSE IF "medication" \in Triggered(arg.question) THEN "medication"
            ELSE IF "risk" \in Triggered(arg.question) THEN "risk"
            ELSE "generic" }

\* "Dose and risk" has triggers of two templates and gets the medication
\* template, with sources of which none is a med
C27_Witness ==
    /\ arg.kind = "template"
    /\ Triggered(arg.question) = {"medication", "risk"}
    /\ arg.sources # <<>>
    /\ ~HasType(arg.sources, "med")
    /\ result # NoResult
    /\ TemplatesShown(result) = {"medication"}

\* ------------------------------------------------------------------------
\* Waiting before a connection is opened
\* ------------------------------------------------------------------------
\* C28: a request that acquires a connection while the idle pool is empty
\* first waits, and a request only sets about opening a new connection
\* after that wait and a second look at the pool: no connection is opened
\* by a request that did not wait.
C28_WaitBeforeOpening ==
    [][\A r \in Requests :
         /\ rpc[r] = "idle" /\ rpc'[r] # "idle" /\ pool = <<>> => rpc'[r] = "sleeping"
         /\ rpc[r] # "creating" /\ rpc'[r] = "creating" => rpc[r] = "sleeping"]_vars

\* the wait is taken only when the pool is empty and the maximum pool size
\* is not positive; with a positive maximum an empty pool makes the
\* request open a connection at once
C28_WaitOnlyWithoutRoom ==
    [][\A r \in Requests :
         /\ rpc[r] = "idle" /\ rpc'[r] = "sleeping" => pool = <<>> /\ pool_size <= 0
         /\ rpc[r] = "idle" /\ rpc'[r] = "creating" => pool = <<>> /\ pool_size > 0
         /\ rpc[r] = "sleeping" /\ rpc'[r] = "creating" => pool = <<>>]_vars

\* ------------------------------------------------------------------------
\* Disposal of a connection on leaving get_connection
\* ------------------------------------------------------------------------
\* the connection is among the idle ones
Idle(c, p) == \E i \in 1..Len(p) : p[i] = c

\* request r leaves get_connection: its connection goes back to the idle
\* pool when the pool holds fewer than the configured maximum, and is
\* closed otherwise, never both
DisposesOnce(r) ==
    /\ rpc[r] = "using" /\ rpc'[r] # "using" =>
         IF Len(pool) < pool_cfg.db_pool_max_size
         THEN /\ pool' = Append(pool, conn[r])
              /\ closed' = closed
              /\ rpc'[r] = "idle"
         ELSE /\ rpc'[r] = "closing"
              /\ pool' = pool
    /\ rpc[r] = "closing" /\ rpc'[r] # "closing" =>
         /\ closed' = closed \cup {conn[r]}
         /\ conn[r] \notin closed
         /\ ~Idle(conn[r], pool')
         /\ rpc'[r] = "idle"

\* C29: on leaving get_connection the held connection is returned to the
\* idle pool if the pool holds fewer than the configured maximum and is
\* closed otherwise, exactly one of the two; and the number of idle
\* connections never exceeds the configured maximum pool size.
C29_DisposedOnceAndPoolBounded ==
    /\ [][\A r \in Requests : DisposesOnce(r)]_vars
    /\ [](Len(pool) <= pool_cfg.db_pool_max_size)

\* the disposal on its own is as claimed
C29_DisposedOnce == [][\A r \in Requests : DisposesOnce(r)]_vars

\* the idle pool is bounded by the larger of the two configured sizes:
\* init_db_pool opens the configured minimum whatever the maximum
C29_PoolWithinLargerSize ==
    Len(pool) <= (IF pool_cfg.db_pool_min_size > pool_cfg.db_pool_max_size
                  THEN pool_cfg.db_pool_min_size ELSE pool_cfg.db_pool_max_size)

\* a running application whose idle pool exceeds the configured maximum
C29_PoolAboveMaximum ==
    /\ app = "running"
    /\ Len(pool) > pool_cfg.db_pool_max_size

\* ------------------------------------------------------------------------
\* update_action (routes/actions.py)
\* ------------------------------------------------------------------------
\* the optional fields of ActionUpdate, in the order update_action tests them
UpdateFields == <<"action_text", "status", "priority", "doctor_notes", "updated_by">>

\* "column = $n"
Assign(column, n) == [column |-> column, fn |-> "param", n |-> n]

\* "column = NOW()"
SetNow(column) == [column |-> column, fn |-> "now", n |-> 0]

\* completed_at is set whenever a status is supplied
RECURSIVE BuildUpdateCompletesAnyStatus(_, _, _)
BuildUpdateCompletesAnyStatus(update, fields, acc) ==
    IF fields = <<>> THEN acc
    ELSE LET f == Head(fields)
             next == IF update[f] # NoneVal
                     THEN [updates |-> acc.updates \o <<Assign(f, acc.param_idx)>>
                                         \o (IF f = "status"
                                             THEN <<SetNow("completed_at")>> ELSE <<>>),
                           params |-> Append(acc.params, update[f]),
                           param_idx |-> acc.param_idx + 1]
                     ELSE acc
         IN BuildUpdateCompletesAnyStatus(update, Tail(fields), next)

\* the chain of "if update.f is not None" blocks over the given fields:
\* updates, params and param_idx grow together
RECURSIVE BuildUpdate(_, _, _)
BuildUpdate(update, fields, acc) ==
    IF fields = <<>> THEN acc
    ELSE LET f == Head(fields)
             next == IF update[f] # NoneVal
                     THEN [updates |-> acc.updates \o <<Assign(f, acc.param_idx)>>
                                         \o (IF f = "status" /\ update[f] = "completed"
                                             THEN <<SetNow("completed_at")>> ELSE <<>>),
                           params |-> Append(acc.params, update[f]),
                           param_idx |-> acc.param_idx + 1]
                     ELSE acc
         IN BuildUpdate(update, Tail(fields), next)

\* the value a SET clause gives its column
ClauseValue(clause, params) == IF clause.fn = "now" THEN "NOW" ELSE params[clause.n]

\* the row after the SET clauses, a later clause of a column winning
ApplySet(row, stmt) ==
    [c \in DOMAIN row |->
       LET hits == {i \in 1..Len(stmt.set) : stmt.set[i].column = c}
       IN IF hits = {} THEN row[c]
          ELSE ClauseValue(stmt.set[CHOOSE i \in hits : \A j \in hits : j <= i], stmt.params)]

\* the WHERE clause holds of the row
RowMatches(row, stmt) ==
    \A i \in 1..Len(stmt.where) : row[stmt.where[i].column] = stmt.params[stmt.where[i].n]

\* execute_one of the UPDATE ... RETURNING statement on the table: the rows
\* afterwards and the first returned row, if any
execute_one(stmt, rows) ==
    LET hit == {row \in rows : RowMatches(row, stmt)}
    IN [rows |-> (rows \ hit) \cup {ApplySet(row, stmt) : row \in hit},
        returned |-> IF hit = {} THEN <<>> ELSE <<ApplySet(CHOOSE row \in hit : TRUE, stmt)>>]

\* update_action on the given table; db_ok: the statement does not raise
update_action(patient_id, action_id, update, table, db_ok) ==
    LET b == BuildUpdate(update, UpdateFields,
                         [updates |-> <<>>, params |-> <<>>, param_idx |-> 1])
        stmt == [set |-> Append(b.updates, SetNow("updated_at")),
                 where |-> <<Assign("action_id", b.param_idx),
                             Assign("patient_id", b.param_idx + 1)>>,
                 params |-> b.params \o <<action_id, patient_id>>]
        ran == execute_one(stmt, table.rows)
    IN IF b.updates = <<>>
       THEN [status |-> 400, returned |-> <<>>, table |-> table]
       ELSE IF ~db_ok
       THEN [status |-> 500, returned |-> <<>>,
             table |-> [table EXCEPT !.statements = Append(@, stmt)]]
       ELSE [status |-> IF ran.returned = <<>> THEN 404 ELSE 200,
             returned |-> ran.returned,
             table |-> [rows |-> ran.rows, statements |-> Append(table.statements, stmt)]]

\* a stored action
Action(action_id, patient_id, action_text, status) ==
    [action_id |-> action_id, patient_id |-> patient_id, action_text |-> action_text,
     status |-> status, priority |-> "normal", doctor_notes |-> NoneVal,
     updated_by |-> NoneVal, completed_at |-> NoneVal, updated_at |-> NoneVal]

\* the table before the request: two actions of two patients
StoredActions ==
    {Action(1, "p1", "Check potassium", "pending"), Action(2, "p2", "Review dose", "in_progress")}

\* the bodies a client can send: each field left out or given, the text
\* possibly empty
ActionUpdates ==
    [action_text : {NoneVal, "", "Call patient"},
     status : {NoneVal, "completed", "dismissed"},
     priority : {NoneVal, "high"},
     doctor_notes : {NoneVal, "seen"},
     updated_by : {NoneVal, "dr"}]

InitUpdate ==
    /\ arg \in {[kind |-> "update", patient_id |-> p, action_id |-> a, update |-> u] :
                   p \in {"p1", "p2"}, a \in {1, 3}, u \in ActionUpdates}
    /\ result = NoResult
    /\ clinical_actions = [rows |-> StoredActions, statements |-> <<>>]
    /\ PipelineIdle
    /\ PoolIdle

\* one PUT /{patient_id}/actions/{action_id}
UpdateAction ==
    /\ arg.kind = "update"
    /\ result = NoResult
    /\ \E db_ok \in BOOLEAN :
         LET r == update_action(arg.patient_id, arg.action_id, arg.update,
                                clinical_actions, db_ok)
         IN /\ result' = [kind |-> "update", status |-> r.status, returned |-> r.returned]
            /\ clinical_actions' = r.table
    /\ UNCHANGED <<arg, pipelineVars, poolVars>>

NextUpdate == UpdateAction

SpecUpdate == InitUpdate /\ [][NextUpdate]_vars

\* the fields the body supplies
Supplied(u) == {UpdateFields[i] : i \in {j \in 1..Len(UpdateFields) : u[UpdateFields[j]] # NoneVal}}

\* the clauses that carry a placeholder, in their order
RECURSIVE ParamClauses(_)
ParamClauses(set) ==
    IF set = <<>> THEN <<>>
    ELSE (IF Head(set).fn = "param" THEN <<Head(set)>> ELSE <<>>) \o ParamClauses(Tail(set))

\* the stored actions with the given identifier and patient
Addressed(a, p) == {row \in StoredActions : row.action_id = a /\ row.patient_id = p}

\* statement st sets exactly the supplied fields of u plus updated_at, and
\* completed_at exactly for the status "completed"; its placeholders are
\* 1..k in the order of the k values, each field's placeholder bound to the
\* field's value; action_id and patient_id are bound to placeholders k+1, k+2
StatementAsSupplied(st, u, a, p) ==
    LET k == Cardinality(Supplied(u))
        ps == ParamClauses(st.set)
        columns == Supplied(u) \cup {"updated_at"}
                     \cup (IF u.status = "completed" THEN {"completed_at"} ELSE {})
    IN /\ {st.set[i].column : i \in 1..Len(st.set)} = columns
       /\ Len(st.set) = Cardinality(columns)
       /\ \A i \in 1..Len(st.set) :
            st.set[i].fn = "now" <=> st.set[i].column \in {"updated_at", "completed_at"}
       /\ Len(ps) = k
       /\ \A j \in 1..k : ps[j].n = j /\ st.params[j] = u[ps[j].column]
       /\ Len(st.params) = k + 2
       /\ st.where = <<Assign("action_id", k + 1), Assign("patient_id", k + 2)>>
       /\ st.params[k + 1] = a
       /\ st.params[k + 2] = p

\* C30: update_action with no field supplied answers 400 and runs no
\* statement; with k fields supplied it runs one statement that sets exactly
\* those fields plus updated_at, and completed_at if and only if the status
\* supplied is "completed", with placeholders 1..k in the order of the k
\* values, each field bound to its own value, and action_id and patient_id
\* bound to the last two placeholders; when the statement matches no row
\* of that (action_id, patient_id) the answer is 404.
C30_UpdateStatement ==
    arg.kind = "update" /\ result # NoResult =>
        LET u == arg.update
            log == clinical_actions.statements
        IN IF Supplied(u) = {}
           THEN /\ result.status = 400
                /\ log = <<>>
                /\ clinical_actions.rows = StoredActions
           ELSE /\ result.status # 400
                /\ Len(log) = 1
                /\ StatementAsSupplied(log[1], u, arg.action_id, arg.patient_id)
                /\ result.status # 500 =>
                     /\ result.status = 404 <=> Addressed(arg.action_id, arg.patient_id) = {}
                     /\ result.status = 404 => clinical_actions.rows = StoredActions
                     /\ result.status = 200 =>
                          /\ Len(result.returned) = 1
                          /\ result.returned[1] \in clinical_actions.rows
                          /\ \A f \in Supplied(u) : result.returned[1][f] = u[f]
                          /\ result.returned[1].completed_at = "NOW" <=> u.status = "completed"
                          /\ result.returned[1].updated_at = "NOW"

\* an empty action_text, a status other than completed and a priority are
\* supplied for a stored action: three placeholders, no completed_at
C30_Witness ==
    /\ arg.kind = "update"
    /\ arg.update.action_text = ""
    /\ arg.update.status = "dismissed"
    /\ arg.update.priority = "high"
    /\ arg.update.doctor_notes = NoneVal
    /\ result # NoResult
    /\ result.status = 200
    /\ Len(clinical_actions.statements) = 1
    /\ clinical_actions.statements[1].where[1].n = 4
    /\ result.returned[1].completed_at = NoneVal

\* the action exists but belongs to another patient: 404, nothing changed
C30_WitnessOtherPatient ==
    /\ arg.kind = "update"
    /\ arg.action_id = 1
    /\ arg.patient_id = "p2"
    /\ arg.update.status = "completed"
    /\ result # NoResult
    /\ result.status = 404
    /\ clinical_actions.rows = StoredActions

\* nothing supplied: 400 and no statement
C30_WitnessEmpty ==
    /\ arg.kind = "update"
    /\ Supplied(arg.update) = {}
    /\ result # NoResult
    /\ result.status = 400
    /\ clinical_actions.statements = <<>>

====
